---- MODULE Spec2Model ----
(***************************************************************************)
(* A model of refscan: the Finder (the caching lookup engine of            *)
(* lib/Finder.py), the catalog builder of lib/helpers.py, and the scan     *)
(* loops of scanner.py and refscan.py.                                     *)
(***************************************************************************)
EXTENDS Integers, Sequences, FiniteSets, TLC

(***************************************************************************)
(* Values.  Python's None is the string "None"; a value that is not a      *)
(* string (an int, a dict) is NonStr.  An Optional[bool] is <<>> for None  *)
(* and <<b>> for the boolean b.                                            *)
(***************************************************************************)
None == "None"
NonStr == "<non-str>"

CollNames == {"a_set", "b_set", "c_set"}
Ids == {"x", "y"}

\* Bounds of the model: the number of documents in the store, and in the
\* store a pending transaction is about to change; the number of disjuncts
\* of an any_of; the number of documents in a store that is scanned; the
\* number of violations in a report.
MaxDocs == 2
MaxTxnDocs == 1
MaxAnyOf == 2
MaxScanDocs == 2
MaxViolations == 2

InSeq(seq, e) == \E k \in 1..Len(seq) : seq[k] = e

Range(seq) == {seq[k] : k \in 1..Len(seq)}

\* list.remove(e): the list without the first occurrence of e.
ListRemove(seq, e) ==
  LET i == CHOOSE k \in 1..Len(seq) : seq[k] = e /\ \A j \in 1..(k - 1) : seq[j] # e
  IN  SubSeq(seq, 1, i - 1) \o SubSeq(seq, i + 1, Len(seq))

\* seq[0:n] of Python: the first n items, fewer when the list is shorter.
Prefix(seq, n) == SubSeq(seq, 1, IF n < Len(seq) THEN n ELSE Len(seq))

\* The lists without repeated names, of at most n names, over the set S.
RECURSIVE ListsOver(_, _)
ListsOver(S, n) ==
  IF n = 0 THEN {<<>>}
  ELSE LET shorter == ListsOver(S, n - 1)
       IN  shorter \cup {Append(p[1], p[2]) : p \in {q \in shorter \X S : q[2] \notin Range(q[1])}}

\* The items of the set S as a list, in the order the list ord ranks them.
RECURSIVE ListOfSet(_, _)
ListOfSet(S, ord) ==
  IF ord = <<>> THEN <<>>
  ELSE (IF Head(ord) \in S THEN <<Head(ord)>> ELSE <<>>) \o ListOfSet(S, Tail(ord))

\* All the orders (lists holding each item once) of the set S.
Orders(S) == {l \in ListsOver(S, Cardinality(S)) : Len(l) = Cardinality(S)}

\* The ways to pick for every key of the function sets an item of its set.
RECURSIVE ChoicesEach(_)
ChoicesEach(sets) ==
  IF DOMAIN sets = {} THEN {<<>>}
  ELSE LET d == CHOOSE e \in DOMAIN sets : TRUE
       IN  {(d :> p[1]) @@ p[2] :
              p \in sets[d] \X ChoicesEach([e \in DOMAIN sets \ {d} |-> sets[e]])}

\* The ways to give every key of the function sets an order of its set.
OrdersEach(sets) == ChoicesEach([d \in DOMAIN sets |-> Orders(sets[d])])

\* The lists of a list of lists, one after the other.
RECURSIVE Concat(_)
Concat(lists) == IF lists = <<>> THEN <<>> ELSE Head(lists) \o Concat(Tail(lists))

\* The list without the repeats of its items: the first of each is kept.
RECURSIVE Dedupe(_)
Dedupe(seq) ==
  IF seq = <<>> THEN <<>>
  ELSE LET front == Dedupe(SubSeq(seq, 1, Len(seq) - 1))
       IN  IF InSeq(front, seq[Len(seq)]) THEN front ELSE Append(front, seq[Len(seq)])

VARIABLES
  db,                                            \* the committed documents of each collection
  txn,                                           \* the writes pending on the client session
  cached_collection_names_where_recently_found,  \* Finder: the recency queue
  cached_id_presence_by_collection,              \* Finder: the presence cache
  call,                                          \* the last operation: its arguments and outcome
  schema_view,                                   \* the schema the catalog is built from
  references,                                    \* the catalog: a list of Reference
  files,                                         \* the report files written: path to content
  other_finder                                   \* a second Finder on the same store: [queue, cache]

vars == <<db, txn, cached_collection_names_where_recently_found,
          cached_id_presence_by_collection, call, schema_view, references, files,
          other_finder>>

(***************************************************************************)
(* The document store.  A document is a function from its keys ("_id",     *)
(* "id", "type", field names) to values.  A query made with a client       *)
(* session sees the store as it would be after the pending transaction.    *)
(***************************************************************************)
\* The documents a query on collection c sees, with or without the session.
\* db.get_collection(c) gives a handle whether or not the store has the
\* collection, and a query on a collection the store lacks finds nothing.
CollectionView(c, session) ==
  IF c \notin DOMAIN db THEN <<>>
  ELSE IF session
  THEN LET kept == SelectSeq(db[c], LAMBDA d : ~("id" \in DOMAIN d /\ d["id"] \in txn.del[c]))
       IN  kept \o txn.ins[c]
  ELSE db[c]

\* collection.find_one({"id": document_id}) is not None
find_one(c, document_id, session) ==
  \E k \in 1..Len(CollectionView(c, session)) :
    LET d == CollectionView(c, session)[k]
    IN  "id" \in DOMAIN d /\ d["id"] = document_id

(***************************************************************************)
(* lib/Finder.py.  The helpers take the cache they work on as an argument  *)
(* and return its new value, so that a whole call is one step.             *)
(***************************************************************************)
cache_size == 2

\* A slip in _set_name_of_collection_most_recently_found_in: the excess
\* names are not dropped.
set_name_dropping_nothing(queue, collection_name) ==
  IF Len(queue) = 0 \/ queue[1] # collection_name
  THEN LET removed == IF InSeq(queue, collection_name)
                      THEN ListRemove(queue, collection_name)
                      ELSE queue
       IN  <<collection_name>> \o removed
  ELSE queue

\* Finder._set_name_of_collection_most_recently_found_in: the new queue.
set_name_of_collection_most_recently_found_in(queue, collection_name) ==
  IF Len(queue) = 0 \/ queue[1] # collection_name
  THEN LET removed == IF InSeq(queue, collection_name)
                      THEN ListRemove(queue, collection_name)
                      ELSE queue
       IN  <<collection_name>> \o Prefix(removed, cache_size - 1)
  ELSE queue

\* The loop of _optimize_collection_search_order, over queue[k], ..., queue[1].
RECURSIVE optimize_loop(_, _, _, _)
optimize_loop(ordered, names_of_eligible_collections, queue, k) ==
  IF k = 0 THEN ordered
  ELSE optimize_loop(
         IF InSeq(names_of_eligible_collections, queue[k])
         THEN <<queue[k]>> \o ListRemove(ordered, queue[k])
         ELSE ordered,
         names_of_eligible_collections, queue, k - 1)

\* A slip in _optimize_collection_search_order: only the names found in the
\* queue are kept, the other eligible names are lost.
optimize_dropping_uncached(queue, names_of_eligible_collections) ==
  SelectSeq(queue, LAMBDA c : InSeq(names_of_eligible_collections, c))

\* A slip in _optimize_collection_search_order: the queue is walked from its
\* front, without reversed().
optimize_without_reversed(queue, names_of_eligible_collections) ==
  optimize_loop(names_of_eligible_collections, names_of_eligible_collections,
                [k \in 1..Len(queue) |-> queue[Len(queue) + 1 - k]], Len(queue))

\* A slip in _optimize_collection_search_order: a queue name is moved to the
\* front whether or not it is among the eligible ones.
optimize_without_eligibility_test(queue, names_of_eligible_collections) ==
  queue \o SelectSeq(names_of_eligible_collections, LAMBDA c : ~InSeq(queue, c))

\* Finder._optimize_collection_search_order
optimize_collection_search_order(queue, names_of_eligible_collections) ==
  optimize_loop(names_of_eligible_collections, names_of_eligible_collections,
                queue, Len(queue))

\* A slip in _set_cached_id_presence_in_collection: only a presence is
\* recorded, an absence is not.
set_cached_id_presence_when_found(cache, collection_name, document_id, is_present) ==
  IF ~is_present THEN cache
  ELSE LET withKey == IF collection_name \in DOMAIN cache
                      THEN cache
                      ELSE (collection_name :> <<>>) @@ cache
       IN  [withKey EXCEPT ![collection_name] = (document_id :> is_present) @@ @]

\* A slip in _set_cached_id_presence_in_collection: the collection's entries
\* are replaced by the new one instead of being added to.
set_cached_id_presence_resetting_collection(cache, collection_name, document_id, is_present) ==
  LET withKey == IF collection_name \in DOMAIN cache
                 THEN cache
                 ELSE (collection_name :> <<>>) @@ cache
  IN  [withKey EXCEPT ![collection_name] = (document_id :> is_present)]

\* Finder._set_cached_id_presence_in_collection: the new presence cache.
set_cached_id_presence_in_collection(cache, collection_name, document_id, is_present) ==
  LET withKey == IF collection_name \in DOMAIN cache
                 THEN cache
                 ELSE (collection_name :> <<>>) @@ cache
  IN  [withKey EXCEPT ![collection_name] = (document_id :> is_present) @@ @]

\* A slip in _get_cached_id_presence_in_collection: the cache is never hit.
get_cached_id_presence_never_hit(cache, collection_name, document_id) == <<>>

\* Finder._get_cached_id_presence_in_collection: <<>> for None, <<b>> for b.
get_cached_id_presence_in_collection(cache, collection_name, document_id) ==
  IF \/ collection_name \notin DOMAIN cache
     \/ document_id \notin DOMAIN cache[collection_name]
  THEN <<>>
  ELSE <<cache[collection_name][document_id]>>

\* The search loop of check_whether_document_having_id_exists_among_collections,
\* from the k-th name of the optimized order on; queried lists the collections
\* the store was asked about in this call.
RECURSIVE check_loop(_, _, _, _, _, _, _)
check_loop(ordered, k, document_id, session, queue, cache, queried) ==
  IF k > Len(ordered)
  THEN [result |-> None, queue |-> queue, cache |-> cache, queried |-> queried]
  ELSE LET collection_name == ordered[k]
           is_id_present == get_cached_id_presence_in_collection(
                              cache, collection_name, document_id)
       IN  IF is_id_present = <<FALSE>>
           THEN check_loop(ordered, k + 1, document_id, session, queue, cache, queried)
           ELSE IF is_id_present = <<TRUE>>
           THEN [result |-> collection_name,
                 queue |-> set_name_of_collection_most_recently_found_in(queue, collection_name),
                 cache |-> cache,
                 queried |-> queried]
           ELSE IF find_one(collection_name, document_id, session)
           THEN [result |-> collection_name,
                 queue |-> set_name_of_collection_most_recently_found_in(queue, collection_name),
                 cache |-> set_cached_id_presence_in_collection(
                             cache, collection_name, document_id, TRUE),
                 queried |-> Append(queried, collection_name)]
           ELSE check_loop(ordered, k + 1, document_id, session, queue,
                           set_cached_id_presence_in_collection(
                             cache, collection_name, document_id, FALSE),
                           Append(queried, collection_name))

\* A slip in check_whether_document_having_id_exists_among_collections: a
\* candidate that the recency queue names is returned without being looked up.
check_trusting_queue(queue, cache, document_id, collection_names, session) ==
  IF /\ optimize_collection_search_order(queue, collection_names) # <<>>
     /\ InSeq(queue, optimize_collection_search_order(queue, collection_names)[1])
  THEN [result |-> optimize_collection_search_order(queue, collection_names)[1],
        queue |-> queue, cache |-> cache, queried |-> <<>>]
  ELSE check_loop(optimize_collection_search_order(queue, collection_names), 1,
                  document_id, session, queue, cache, <<>>)

\* A slip in check_whether_document_having_id_exists_among_collections: a
\* lookup that finds nothing moves its first candidate to the front of the
\* recency queue.
check_promoting_first_candidate(queue, cache, document_id, collection_names, session) ==
  IF \/ collection_names = <<>>
     \/ check_loop(optimize_collection_search_order(queue, collection_names), 1,
                   document_id, session, queue, cache, <<>>).result # None
  THEN check_loop(optimize_collection_search_order(queue, collection_names), 1,
                  document_id, session, queue, cache, <<>>)
  ELSE [check_loop(optimize_collection_search_order(queue, collection_names), 1,
                   document_id, session, queue, cache, <<>>)
          EXCEPT !.queue = set_name_of_collection_most_recently_found_in(
                             queue, collection_names[1])]

\* A slip in check_whether_document_having_id_exists_among_collections: the
\* loop does not stop at a hit, so every candidate the presence cache knows
\* nothing about is asked of the store and recorded.
check_asking_every_candidate(queue, cache, document_id, collection_names, session) ==
  [check_loop(optimize_collection_search_order(queue, collection_names), 1,
              document_id, session, queue, cache, <<>>)
     EXCEPT !.queried = SelectSeq(
                          optimize_collection_search_order(queue, collection_names),
                          LAMBDA c : get_cached_id_presence_in_collection(
                                       cache, c, document_id) = <<>>),
            !.cache = [c \in DOMAIN cache \cup Range(collection_names) |->
                         IF get_cached_id_presence_in_collection(cache, c, document_id) = <<>>
                            /\ c \in Range(collection_names)
                         THEN (document_id :> find_one(c, document_id, session))
                                @@ (IF c \in DOMAIN cache THEN cache[c] ELSE <<>>)
                         ELSE cache[c]]]

\* A slip in check_whether_document_having_id_exists_among_collections: a
\* recorded absence of the id is not trusted; the store is asked again, and
\* its answer does not replace what the presence cache holds.
check_asking_again_after_absence(queue, cache, document_id, collection_names, session) ==
  LET trusted == [c \in DOMAIN cache |->
                    [i \in {d \in DOMAIN cache[c] : d # document_id \/ cache[c][d]} |->
                       cache[c][i]]]
      r == check_loop(optimize_collection_search_order(queue, collection_names), 1,
                      document_id, session, queue, trusted, <<>>)
  IN  [r EXCEPT !.cache = [c \in DOMAIN r.cache |->
                             [i \in DOMAIN r.cache[c] |->
                                IF get_cached_id_presence_in_collection(cache, c, i) # <<>>
                                THEN cache[c][i] ELSE r.cache[c][i]]]]

\* Finder.check_whether_document_having_id_exists_among_collections
check_whether_document_having_id_exists_among_collections(queue, cache, document_id, collection_names, session) ==
  check_loop(optimize_collection_search_order(queue, collection_names), 1,
             document_id, session, queue, cache, <<>>)

(***************************************************************************)
(* The Finder in use: a caller makes one lookup after the other on the     *)
(* same Finder, against a store nobody writes to.                          *)
(***************************************************************************)
\* The ids in their listing order, for building a collection's documents.
IdOrder == <<"x", "y">>

\* A document that holds nothing but its keys "_id" and "id".
BareDoc(c, i) == ("_id" :> <<c, i>>) @@ ("id" :> i)

\* How many collections hold a document with id i, under the presence map pm.
Spread(pm, i) == Cardinality({c \in CollNames : i \in pm[c]})

\* The stores of at most MaxDocs documents over CollNames and Ids.  Collection
\* names and ids are interchangeable to the Finder (every candidate list is
\* tried), so of the stores that differ only by a renaming one is kept: the
\* one whose collections come in decreasing size and whose id "x" is the
\* more widespread.
StoresUpTo(n) ==
  LET maps == {pm \in [CollNames -> SUBSET Ids] :
                 /\ Cardinality({p \in CollNames \X Ids : p[2] \in pm[p[1]]}) <= n
                 /\ Cardinality(pm["a_set"]) >= Cardinality(pm["b_set"])
                 /\ Cardinality(pm["b_set"]) >= Cardinality(pm["c_set"])
                 /\ Spread(pm, "x") >= Spread(pm, "y")}
  IN  {[c \in CollNames |->
          LET ids == ListOfSet(pm[c], IdOrder)
          IN  [k \in 1..Len(ids) |-> BareDoc(c, ids[k])]] : pm \in maps}

Stores == StoresUpTo(MaxDocs)

\* No report file has been written yet.
NoFiles == <<>>

\* A second Finder as Finder.__init__ leaves it.
NoOtherFinder == [queue |-> <<>>, cache |-> <<>>]

\* No catalog has been built yet.
NoReferences == [built |-> FALSE, raised |-> FALSE, data |-> <<>>]

NoTxn == [ins |-> [c \in CollNames |-> <<>>], del |-> [c \in CollNames |-> {}]]

\* Every list of candidate collections that names no collection twice.
CandidateLists == ListsOver(CollNames, Cardinality(CollNames))

\* Finder.__init__
InitFinder ==
  /\ cached_collection_names_where_recently_found = <<>>
  /\ cached_id_presence_by_collection = <<>>

Init ==
  /\ db \in Stores
  /\ txn = NoTxn
  /\ InitFinder
  /\ call = [op |-> "init"]
  /\ schema_view = None
  /\ references = NoReferences
  /\ files = NoFiles
  /\ other_finder = NoOtherFinder

\* One call of check_whether_document_having_id_exists_among_collections.
resolve(document_id, collection_names, session) ==
  LET r == check_whether_document_having_id_exists_among_collections(
             cached_collection_names_where_recently_found,
             cached_id_presence_by_collection,
             document_id, collection_names, session)
  IN  /\ cached_collection_names_where_recently_found' = r.queue
      /\ cached_id_presence_by_collection' = r.cache
      /\ call' = [op |-> "check",
                  document_id |-> document_id,
                  collection_names |-> collection_names,
                  session |-> session,
                  result |-> r.result,
                  queried |-> r.queried,
                  repeat |-> /\ call.op = "check"
                             /\ call.document_id = document_id
                             /\ call.collection_names = collection_names
                             /\ call.session = session]
      /\ UNCHANGED <<db, txn, schema_view, references, files, other_finder>>

\* A lookup made without a client session.
Check == \E document_id \in Ids, collection_names \in CandidateLists :
           resolve(document_id, collection_names, FALSE)

Next == Check

Spec == Init /\ [][Next]_vars

\* The ids of the documents of collection c that carry a string id.
IdsIn(docs) == {docs[k]["id"] : k \in {j \in 1..Len(docs) : "id" \in DOMAIN docs[j]}}

\* The candidates that hold a document with the id of the last lookup.
Holders == {c \in Range(call.collection_names) : call.document_id \in IdsIn(db[c])}

\* C1: against a store nobody writes to, a lookup returns None exactly when no
\* candidate collection holds a document with the id, and otherwise the name
\* of a candidate that does hold one.
C1_ResultIsAHolder ==
  call.op = "check" =>
    /\ (call.result = None <=> Holders = {})
    /\ (call.result # None => call.result \in Holders)

C1_Witness ==
  /\ call.op = "check"
  /\ call.result # None
  /\ call.queried = <<>>
  /\ Len(call.collection_names) >= 2

\* C5: a lookup repeated with the same arguments right after the first returns
\* the same answer, asks the store nothing, and leaves both caches as the
\* first lookup left them.
C5_RepeatIsFree ==
  [][(call'.op = "check" /\ call'.repeat) =>
       /\ call'.result = call.result
       /\ call'.queried = <<>>
       /\ cached_id_presence_by_collection' = cached_id_presence_by_collection
       /\ cached_collection_names_where_recently_found'
            = cached_collection_names_where_recently_found]_vars

C5_Witness ==
  /\ call.op = "check"
  /\ call.repeat
  /\ call.result # None
  /\ Len(call.collection_names) >= 2

\* The first name of the list that holds a document with the id, None if none.
FirstHolder(names, document_id) ==
  LET hits == SelectSeq(names, LAMBDA c : document_id \in IdsIn(db[c]))
  IN  IF hits = <<>> THEN None ELSE hits[1]

\* C7 as claimed: a lookup returns the first collection, in the order of the
\* list it was given, that holds a document with the id.
C7_FirstInListedOrder ==
  call.op = "check" => call.result = FirstHolder(call.collection_names, call.document_id)

\* The listed names that are in the queue, in queue order, then the others in
\* their listed order.
PromotedOrder(queue, names) ==
  SelectSeq(queue, LAMBDA c : InSeq(names, c))
    \o SelectSeq(names, LAMBDA c : ~InSeq(queue, c))

\* C7 amended: a lookup returns the first collection that holds a document with
\* the id in the optimized search order (the listed names of the recency
\* queue first, in queue order, then the other listed names in listed order);
\* that is the first in listed order when no listed name is in the queue.
C7_FirstInOptimizedOrder ==
  [][call'.op = "check" =>
       /\ call'.result =
            FirstHolder(PromotedOrder(cached_collection_names_where_recently_found,
                                      call'.collection_names),
                        call'.document_id)
       /\ (Range(cached_collection_names_where_recently_found)
             \cap Range(call'.collection_names) = {}
           => call'.result = FirstHolder(call'.collection_names, call'.document_id))]_vars

C7_Witness ==
  /\ call.op = "check"
  /\ Cardinality(Holders) >= 2
  /\ call.result # call.collection_names[1]
  /\ call.result # None

(***************************************************************************)
(* The recency queue by itself: collection names are promoted one after    *)
(* the other on a new Finder; call.promoted is the list of the names       *)
(* promoted so far.                                                        *)
(***************************************************************************)
MaxPromotions == 5

InitQueue ==
  /\ db = [c \in CollNames |-> <<>>]
  /\ txn = NoTxn
  /\ InitFinder
  /\ call = [op |-> "init", promoted |-> <<>>]
  /\ schema_view = None
  /\ references = NoReferences
  /\ files = NoFiles
  /\ other_finder = NoOtherFinder

\* A call of _set_name_of_collection_most_recently_found_in.
Promote ==
  /\ Len(call.promoted) < MaxPromotions
  /\ \E collection_name \in CollNames :
       /\ cached_collection_names_where_recently_found' =
            set_name_of_collection_most_recently_found_in(
              cached_collection_names_where_recently_found, collection_name)
       /\ call' = [op |-> "_set_name_of_collection_most_recently_found_in",
                   promoted |-> Append(call.promoted, collection_name)]
  /\ UNCHANGED <<db, txn, cached_id_presence_by_collection, schema_view, references, files, other_finder>>

NextQueue == Promote

SpecQueue == InitQueue /\ [][NextQueue]_vars

\* The last n distinct names of a list, the most recent first.
RECURSIVE MostRecentDistinct(_, _, _)
MostRecentDistinct(promoted, n, found) ==
  IF promoted = <<>> \/ Len(found) = n THEN found
  ELSE LET last == promoted[Len(promoted)]
       IN  MostRecentDistinct(SubSeq(promoted, 1, Len(promoted) - 1), n,
                              IF InSeq(found, last) THEN found ELSE Append(found, last))

\* C20: from the empty queue, after any promotions the queue is the at most
\* cache_size most recently promoted distinct names, most recent first: it
\* is no longer than cache_size, has no name twice and has the last promoted
\* name at its front.  (So promoting the front name changes nothing, and
\* promoting a new name into a full queue drops the oldest.)
C20_QueueIsMostRecentDistinct ==
  LET queue == cached_collection_names_where_recently_found
  IN  call.op = "_set_name_of_collection_most_recently_found_in" =>
        /\ Len(queue) <= cache_size
        /\ \A i, j \in 1..Len(queue) : queue[i] = queue[j] => i = j
        /\ queue[1] = call.promoted[Len(call.promoted)]
        /\ queue = MostRecentDistinct(call.promoted, cache_size, <<>>)

\* Three names were promoted, one of them twice in a row, and the last into
\* a full queue that did not hold it.
C20_Witness ==
  /\ call.op = "_set_name_of_collection_most_recently_found_in"
  /\ Len(call.promoted) >= 4
  /\ \E k \in 1..(Len(call.promoted) - 1) : call.promoted[k] = call.promoted[k + 1]
  /\ LET n == Len(call.promoted)
     IN  /\ call.promoted[n] \notin {call.promoted[k] : k \in 1..(n - 1)}
         /\ Cardinality({call.promoted[k] : k \in 1..(n - 1)}) = 2
  /\ Len(cached_collection_names_where_recently_found) = cache_size

\* The presence cache has an entry for the collection and the id.
HasEntry(cache, c, document_id) ==
  c \in DOMAIN cache /\ document_id \in DOMAIN cache[c]

\* C23: a lookup asks the store about a collection only when the presence
\* cache has no entry for that collection and the id, asks about no
\* collection twice, and leaves an entry for each collection it asked about
\* that says whether the collection holds the id, found or not.  With C24
\* (an entry is never removed) no pair is asked about twice in the life of
\* the Finder.
C23_QueriedOnlyWhenUnknownThenRecorded ==
  [][call'.op = "check" =>
       \A i \in 1..Len(call'.queried) :
         /\ ~HasEntry(cached_id_presence_by_collection, call'.queried[i], call'.document_id)
         /\ HasEntry(cached_id_presence_by_collection', call'.queried[i], call'.document_id)
         /\ cached_id_presence_by_collection'[call'.queried[i]][call'.document_id]
              = (call'.document_id \in IdsIn(db[call'.queried[i]]))
         /\ \A j \in 1..Len(call'.queried) : call'.queried[i] = call'.queried[j] => i = j]_vars

\* A lookup that found nothing, asked the store about some candidates and
\* was spared the others by the cache; its absences are recorded.
C23_Witness ==
  /\ call.op = "check"
  /\ call.result = None
  /\ Len(call.queried) >= 1
  /\ Len(call.queried) < Len(call.collection_names)
  /\ \A i \in 1..Len(call.queried) :
       cached_id_presence_by_collection[call.queried[i]][call.document_id] = FALSE

\* C24: an entry of the presence cache is never removed and never changes
\* its value.
C24_PresenceCacheOnlyGrows ==
  [][\A c \in CollNames, document_id \in Ids :
       HasEntry(cached_id_presence_by_collection, c, document_id) =>
         /\ HasEntry(cached_id_presence_by_collection', c, document_id)
         /\ cached_id_presence_by_collection'[c][document_id]
              = cached_id_presence_by_collection[c][document_id]]_vars

\* A lookup has just added an entry to a collection that had one for the
\* other id, and both are there, a presence and an absence.
C24_Witness ==
  /\ call.op = "check"
  /\ call.queried # <<>>
  /\ \E c \in Range(call.queried) :
       /\ DOMAIN cached_id_presence_by_collection[c] = Ids
       /\ \E i, j \in Ids : /\ cached_id_presence_by_collection[c][i]
                            /\ ~cached_id_presence_by_collection[c][j]

\* C29: a lookup that returns None leaves the recency queue as it was; a
\* lookup with no candidate changes neither the queue nor the presence cache
\* and asks the store nothing; the queue changes only in a lookup that
\* returns a name, and that name is then at its front.
C29_QueueChangesOnlyOnAHit ==
  [][/\ (call'.op = "check" /\ call'.result = None) =>
          cached_collection_names_where_recently_found'
            = cached_collection_names_where_recently_found
     /\ (call'.op = "check" /\ call'.collection_names = <<>>) =>
          /\ cached_collection_names_where_recently_found'
               = cached_collection_names_where_recently_found
          /\ cached_id_presence_by_collection' = cached_id_presence_by_collection
          /\ call'.queried = <<>>
     /\ (cached_collection_names_where_recently_found'
           # cached_collection_names_where_recently_found) =>
          /\ call'.op = "check"
          /\ call'.result # None
          /\ cached_collection_names_where_recently_found' # <<>>
          /\ cached_collection_names_where_recently_found'[1] = call'.result]_vars

\* A lookup that asked the store, found nothing, and has a queue to leave
\* alone.
C29_Witness ==
  /\ call.op = "check"
  /\ call.result = None
  /\ call.queried # <<>>
  /\ cached_collection_names_where_recently_found # <<>>

\* C30: a lookup asks the store at most once about each candidate, and about
\* candidates only; once a collection yields the hit, from the cache or from
\* the store, no collection after it in the optimized order is asked about
\* or gets a cache entry.
C30_StopsAtTheFirstHit ==
  [][call'.op = "check" =>
       LET ordered == optimize_collection_search_order(
                        cached_collection_names_where_recently_found,
                        call'.collection_names)
       IN  /\ Len(call'.queried) <= Len(call'.collection_names)
           /\ \A i \in 1..Len(call'.queried) :
                /\ InSeq(call'.collection_names, call'.queried[i])
                /\ \A j \in 1..Len(call'.queried) :
                     call'.queried[i] = call'.queried[j] => i = j
           /\ \A i \in 1..Len(ordered) :
                ordered[i] = call'.result =>
                  \A j \in (i + 1)..Len(ordered) :
                    /\ ~InSeq(call'.queried, ordered[j])
                    /\ HasEntry(cached_id_presence_by_collection', ordered[j],
                                call'.document_id)
                         = HasEntry(cached_id_presence_by_collection, ordered[j],
                                    call'.document_id)]_vars

\* A lookup that asked the store about two collections, found the id in the
\* second, and left a later candidate without an entry.
C30_Witness ==
  /\ call.op = "check"
  /\ call.result # None
  /\ Len(call.queried) = 2
  /\ call.queried[2] = call.result
  /\ \E c \in Range(call.collection_names) :
       ~HasEntry(cached_id_presence_by_collection, c, call.document_id)

(***************************************************************************)
(* The search order by itself: the recency queue is set to any list of     *)
(* distinct names, as the test of the Finder sets it, and the order is     *)
(* asked for a list of eligible collections.                               *)
(***************************************************************************)
OrderNames == {"a_set", "b_set", "c_set", "d_set"}
MaxQueueLen == 3
MaxEligible == 3

InitOrder ==
  /\ db = [c \in CollNames |-> <<>>]
  /\ txn = NoTxn
  /\ cached_collection_names_where_recently_found \in ListsOver(OrderNames, MaxQueueLen)
  /\ cached_id_presence_by_collection = <<>>
  /\ call = [op |-> "init"]
  /\ schema_view = None
  /\ references = NoReferences
  /\ files = NoFiles
  /\ other_finder = NoOtherFinder

\* A call of _optimize_collection_search_order: eligible_after is the
\* caller's list after the call, which the method copies and never touches.
OptimizeOrder ==
  /\ call.op = "init"
  /\ \E names_of_eligible_collections \in ListsOver(OrderNames, MaxEligible) :
       call' = [op |-> "_optimize_collection_search_order",
                names_of_eligible_collections |-> names_of_eligible_collections,
                eligible_after |-> names_of_eligible_collections,
                ordered |-> optimize_collection_search_order(
                              cached_collection_names_where_recently_found,
                              names_of_eligible_collections)]
  /\ UNCHANGED <<db, txn, cached_collection_names_where_recently_found,
                 cached_id_presence_by_collection, schema_view, references, files, other_finder>>

NextOrder == OptimizeOrder

SpecOrder == InitOrder /\ [][NextOrder]_vars

\* The place of a name in a list that holds it.
PositionIn(names, c) == CHOOSE k \in 1..Len(names) : names[k] = c

\* C21: the optimized order is a permutation of the eligible list; the
\* eligible names that are in the queue come first, in queue order, then the
\* other eligible names in their original order; the list passed in is left
\* as it was.
C21_OrderIsQueueFirstPermutation ==
  call.op = "_optimize_collection_search_order" =>
    LET queue == cached_collection_names_where_recently_found
        names == call.names_of_eligible_collections
        ordered == call.ordered
    IN  /\ call.eligible_after = names
        /\ Len(ordered) = Len(names)
        /\ Range(ordered) = Range(names)
        /\ \A i, j \in 1..Len(ordered) : i < j =>
             IF InSeq(queue, ordered[j])
             THEN /\ InSeq(queue, ordered[i])
                  /\ PositionIn(queue, ordered[i]) < PositionIn(queue, ordered[j])
             ELSE \/ InSeq(queue, ordered[i])
                  \/ PositionIn(names, ordered[i]) < PositionIn(names, ordered[j])

\* The case of the test: queue (a_set, b_set, c_set), eligible (c_set, d_set,
\* a_set), order (a_set, c_set, d_set).
C21_Witness ==
  /\ call.op = "_optimize_collection_search_order"
  /\ cached_collection_names_where_recently_found = <<"a_set", "b_set", "c_set">>
  /\ call.names_of_eligible_collections = <<"c_set", "d_set", "a_set">>
  /\ call.ordered = <<"a_set", "c_set", "d_set">>

(***************************************************************************)
(* Two Finders on one store nobody writes to.  Each makes some lookups of  *)
(* its own, the first Finder before the other; then, when their presence   *)
(* caches are equal, the same lookup is made on both.                      *)
(***************************************************************************)
MaxWarmups == 2

InitTwin ==
  /\ db \in Stores
  /\ txn = NoTxn
  /\ InitFinder
  /\ call = [op |-> "init", lookups |-> 0, other_lookups |-> 0]
  /\ schema_view = None
  /\ references = NoReferences
  /\ files = NoFiles
  /\ other_finder = NoOtherFinder

\* A lookup on the first Finder.
WarmFirst ==
  /\ call.op \in {"init", "warm"}
  /\ call.other_lookups = 0
  /\ call.lookups < MaxWarmups
  /\ \E document_id \in Ids, collection_names \in CandidateLists :
       LET r == check_whether_document_having_id_exists_among_collections(
                  cached_collection_names_where_recently_found,
                  cached_id_presence_by_collection,
                  document_id, collection_names, FALSE)
       IN  /\ cached_collection_names_where_recently_found' = r.queue
           /\ cached_id_presence_by_collection' = r.cache
  /\ call' = [op |-> "warm", lookups |-> call.lookups + 1, other_lookups |-> 0]
  /\ UNCHANGED <<db, txn, schema_view, references, files, other_finder>>

\* A lookup on the other Finder.
WarmOther ==
  /\ call.op \in {"init", "warm"}
  /\ call.other_lookups < MaxWarmups
  /\ \E document_id \in Ids, collection_names \in CandidateLists :
       LET r == check_whether_document_having_id_exists_among_collections(
                  other_finder.queue, other_finder.cache,
                  document_id, collection_names, FALSE)
       IN  other_finder' = [queue |-> r.queue, cache |-> r.cache]
  /\ call' = [op |-> "warm", lookups |-> call.lookups,
              other_lookups |-> call.other_lookups + 1]
  /\ UNCHANGED <<db, txn, cached_collection_names_where_recently_found,
                 cached_id_presence_by_collection, schema_view, references, files>>

\* The two Finders have equal presence caches, and the same lookup is made
\* on both.
CheckBoth ==
  /\ call.op \in {"init", "warm"}
  /\ cached_id_presence_by_collection = other_finder.cache
  /\ \E document_id \in Ids, collection_names \in CandidateLists :
       LET r == check_whether_document_having_id_exists_among_collections(
                  cached_collection_names_where_recently_found,
                  cached_id_presence_by_collection,
                  document_id, collection_names, FALSE)
           o == check_whether_document_having_id_exists_among_collections(
                  other_finder.queue, other_finder.cache,
                  document_id, collection_names, FALSE)
       IN  /\ cached_collection_names_where_recently_found' = r.queue
           /\ cached_id_presence_by_collection' = r.cache
           /\ other_finder' = [queue |-> o.queue, cache |-> o.cache]
           /\ call' = [op |-> "check_both",
                       document_id |-> document_id,
                       collection_names |-> collection_names,
                       queues_differ |-> cached_collection_names_where_recently_found
                                           # other_finder.queue,
                       result |-> r.result,
                       other_result |-> o.result]
  /\ UNCHANGED <<db, txn, schema_view, references, files>>

NextTwin == WarmFirst \/ WarmOther \/ CheckBoth

SpecTwin == InitTwin /\ [][NextTwin]_vars

\* C22 as claimed: two Finders with equal presence caches and different
\* recency queues return the same value for the same lookup.
C22_SameValueWhateverTheQueue ==
  (call.op = "check_both" /\ call.queues_differ) => call.result = call.other_result

\* C22 amended: the two Finders agree on whether the id is found, each
\* returns a candidate that holds the id, and they return the same name
\* when at most one candidate holds it; when several candidates hold it the
\* name returned is the one the Finder's own queue puts first.
C22_SameOutcomeWhateverTheQueue ==
  call.op = "check_both" =>
    /\ (call.result = None <=> call.other_result = None)
    /\ (call.result = None <=> Holders = {})
    /\ call.result # None => call.result \in Holders
    /\ call.other_result # None => call.other_result \in Holders
    /\ Cardinality(Holders) <= 1 => call.result = call.other_result

\* Equal caches, different queues, and two different names returned.
C22_Witness ==
  /\ call.op = "check_both"
  /\ call.queues_differ
  /\ call.result # None
  /\ call.other_result # None
  /\ call.result # call.other_result

(***************************************************************************)
(* The Finder used with a client session on which a transaction is         *)
(* pending: lookups are made with and without the session.                 *)
(***************************************************************************)
\* The transactions of one write: the insert of a document with id "x" into
\* a_set, or the deletion of the documents with that id from a_set.
Txns ==
  {[ins |-> [c \in CollNames |-> IF c = "a_set" THEN <<BareDoc(c, "x")>> ELSE <<>>],
    del |-> [c \in CollNames |-> {}]],
   [ins |-> [c \in CollNames |-> <<>>],
    del |-> [c \in CollNames |-> IF c = "a_set" THEN {"x"} ELSE {}]]}

\* The writes of the transaction change what the store holds.
TxnChangesStore ==
  \E c \in CollNames : IdsIn(CollectionView(c, TRUE)) # IdsIn(db[c])

InitTxn ==
  /\ db \in StoresUpTo(MaxTxnDocs)
  /\ txn \in Txns
  /\ TxnChangesStore
  /\ InitFinder
  /\ call = [op |-> "init"]
  /\ schema_view = None
  /\ references = NoReferences
  /\ files = NoFiles
  /\ other_finder = NoOtherFinder

\* A lookup made with the client session.
CheckInSession == \E document_id \in Ids, collection_names \in CandidateLists :
                    resolve(document_id, collection_names, TRUE)

NextTxn == Check \/ CheckInSession

SpecTxn == InitTxn /\ [][NextTxn]_vars

\* The candidates that would hold the id of the last lookup after the commit.
HoldersAfterCommit ==
  {c \in Range(call.collection_names) :
     call.document_id \in IdsIn(CollectionView(c, TRUE))}

\* C6: a lookup given a session with a pending transaction answers for the
\* store as it would be after the commit, whatever lookups came before.
C6_SessionSeesPendingWrites ==
  (call.op = "check" /\ call.session) =>
    /\ (call.result = None <=> HoldersAfterCommit = {})
    /\ (call.result # None => call.result \in HoldersAfterCommit)

(***************************************************************************)
(* The schema, as linkml_runtime's SchemaView answers for it.  A schema is *)
(* a record: classes maps a class name to [is_a, slots, class_uri,         *)
(* slot_usage], slots maps a slot name to [range, any_of, multivalued,     *)
(* inlined_as_list].  The collections are the slots of the class Database. *)
(***************************************************************************)
DATABASE_CLASS_NAME == "Database"

\* schema_view.all_classes(): the names of the classes of the schema.
all_classes(sv) == DOMAIN sv.classes

\* The class K, its parent, its parent's parent, ...: nearest first.
RECURSIVE class_ancestors(_, _)
class_ancestors(sv, K) ==
  IF K \notin all_classes(sv) THEN <<>>
  ELSE <<K>> \o (IF sv.classes[K].is_a = None THEN <<>>
                  ELSE class_ancestors(sv, sv.classes[K].is_a))

\* schema_view.class_descendants(K): K and the classes that inherit from it.
RECURSIVE class_descendants(_, _)
class_descendants(sv, K) ==
  {K} \cup UNION {class_descendants(sv, child) :
                    child \in {d \in all_classes(sv) : sv.classes[d].is_a = K}}

\* schema_view.class_slots(K): the names of K's own slots, then of the
\* inherited ones, nearest parent first, each name once.
class_slots(sv, K) ==
  Dedupe(Concat([k \in 1..Len(class_ancestors(sv, K)) |->
                   sv.classes[class_ancestors(sv, K)[k]].slots]))

\* schema_view.induced_slot(F, K): the definition of slot F as used on class K,
\* with the slot_usage of the nearest class of K's line that refines it.
induced_slot(sv, F, K) ==
  LET refining == SelectSeq(class_ancestors(sv, K),
                            LAMBDA A : F \in DOMAIN sv.classes[A].slot_usage)
  IN  IF refining = <<>> THEN sv.slots[F]
      ELSE [sv.slots[F] EXCEPT !.range = sv.classes[refining[1]].slot_usage[F].range]

(***************************************************************************)
(* lib/helpers.py.  A list that Python makes from a set, list(set(...)),   *)
(* comes in no specified order, and each such list in an order of its own: *)
(* the operators below return the set, and where the order of the list     *)
(* matters the caller passes the order of that list.                       *)
(* A result that can be an exception is [raised, ...].                     *)
(***************************************************************************)
\* The classes a slot definition declares: the any_of disjuncts, else the range.
DeclaredRange(slot_definition) ==
  IF Len(slot_definition.any_of) > 0
  THEN Range(slot_definition.any_of)
  ELSE {slot_definition.range}

\* A slip in get_names_of_classes_in_effective_range_of_slot: the descendants
\* of the declared classes are not added.
effective_range_without_descendants(sv, slot_definition) ==
  [raised |-> FALSE,
   names |-> {b \in DeclaredRange(slot_definition) : b \in all_classes(sv)}]

\* A slip in get_names_of_classes_in_effective_range_of_slot: the any_of
\* constraint is not looked at, the range is always used.
effective_range_ignoring_any_of(sv, slot_definition) ==
  [raised |-> FALSE,
   names |-> UNION {class_descendants(sv, b) :
                      b \in {d \in {slot_definition.range} : d \in all_classes(sv)}}]

\* get_names_of_classes_in_effective_range_of_slot
get_names_of_classes_in_effective_range_of_slot(sv, slot_definition) ==
  [raised |-> FALSE,
   names |-> UNION {class_descendants(sv, b) :
                      b \in {d \in DeclaredRange(slot_definition) : d \in all_classes(sv)}}]

\* get_collection_names_from_schema
get_collection_names_from_schema(sv) ==
  {slot_name \in Range(class_slots(sv, DATABASE_CLASS_NAME)) :
     LET slot_definition == induced_slot(sv, slot_name, DATABASE_CLASS_NAME)
     IN  slot_definition.multivalued /\ slot_definition.inlined_as_list}

\* get_names_of_classes_eligible_for_collection
get_names_of_classes_eligible_for_collection(sv, collection_name) ==
  get_names_of_classes_in_effective_range_of_slot(
    sv, induced_slot(sv, collection_name, DATABASE_CLASS_NAME))

\* get_collection_name_to_class_names_map
get_collection_name_to_class_names_map(sv) ==
  [raised |-> \E c \in get_collection_names_from_schema(sv) :
                get_names_of_classes_eligible_for_collection(sv, c).raised,
   map |-> [c \in get_collection_names_from_schema(sv) |->
              get_names_of_classes_eligible_for_collection(sv, c).names]]

\* translate_class_uri_into_schema_class_name
translate_class_uri_into_schema_class_name(sv, class_uri) ==
  IF \E K \in all_classes(sv) : sv.classes[K].class_uri = class_uri
  THEN CHOOSE K \in all_classes(sv) : sv.classes[K].class_uri = class_uri
  ELSE None

\* translate_schema_class_name_into_class_uri
translate_schema_class_name_into_class_uri(sv, schema_class_name) ==
  IF schema_class_name \in all_classes(sv)
  THEN sv.classes[schema_class_name].class_uri
  ELSE None

\* derive_schema_class_name_from_document
derive_schema_class_name_from_document(sv, document) ==
  IF "type" \in DOMAIN document /\ document["type"] # NonStr
  THEN translate_class_uri_into_schema_class_name(sv, document["type"])
  ELSE None

\* lib/Reference.py: the Reference dataclass.
Reference(source_collection_name, source_class_name, source_field_name, target_collection_name, target_class_name) ==
  [source_collection_name |-> source_collection_name,
   source_class_name |-> source_class_name,
   source_field_name |-> source_field_name,
   target_collection_name |-> target_collection_name,
   target_class_name |-> target_class_name]

\* The collection names as sorted(..., key=get_lowercase_key) orders them.
SortedByLowercase ==
  <<"a_set", "b_set", "c_set", "company_set", "db_version", "employee_set", "startup_set">>

\* Reference.__eq__: two References are equal when their five fields are.
reference_eq(self, other) ==
  /\ self.source_collection_name = other.source_collection_name
  /\ self.source_class_name = other.source_class_name
  /\ self.source_field_name = other.source_field_name
  /\ self.target_collection_name = other.target_collection_name
  /\ self.target_class_name = other.target_class_name

\* A slip in identify_references: the names of the eligible target classes
\* are taken disjunct by disjunct, a class once for every disjunct that
\* covers it, instead of from the list without duplicates.
identify_references_without_dedup(sv, map, ord) ==
  LET eff(K, F) == get_names_of_classes_in_effective_range_of_slot(sv, induced_slot(sv, F, K))
      declared(K, F) ==
        LET slot_definition == induced_slot(sv, F, K)
        IN  IF Len(slot_definition.any_of) > 0 THEN slot_definition.any_of
            ELSE <<slot_definition.range>>
      target_collections == ListOfSet(DOMAIN map, ord.collections)
      of_target(C, K, F, T) ==
        Concat([i \in 1..Len(target_collections) |->
                  IF T \in map[target_collections[i]]
                  THEN <<Reference(C, K, F, target_collections[i], T)>>
                  ELSE <<>>])
      of_slot(C, K, F) ==
        LET targets == Concat([k \in 1..Len(declared(K, F)) |->
                                 IF declared(K, F)[k] \in all_classes(sv)
                                 THEN ListOfSet(class_descendants(sv, declared(K, F)[k]),
                                                ord.ranges[induced_slot(sv, F, K)])
                                 ELSE <<>>])
        IN  Concat([i \in 1..Len(targets) |-> of_target(C, K, F, targets[i])])
      of_class(C, K) ==
        LET slot_names == class_slots(sv, K)
        IN  Concat([i \in 1..Len(slot_names) |-> of_slot(C, K, slot_names[i])])
      of_collection(C) ==
        LET class_names == ListOfSet(map[C], ord.classes[C])
        IN  Concat([i \in 1..Len(class_names) |-> of_class(C, class_names[i])])
      sorted_collection_names == ListOfSet(DOMAIN map, SortedByLowercase)
  IN  [raised |-> \E C \in DOMAIN map : \E K \in map[C] :
                    \E F \in Range(class_slots(sv, K)) : eff(K, F).raised,
       data |-> Concat([i \in 1..Len(sorted_collection_names) |->
                          of_collection(sorted_collection_names[i])])]

\* identify_references: the catalog, as [raised, data].  map is the mapping of
\* collection names to class names the caller passes, and ord holds the
\* orders of its lists: ord.collections the order of the keys of map,
\* ord.classes[C] the order of the class names of collection C, and
\* ord.ranges[d] the order in which the effective range of the slot
\* definition d is returned.
identify_references(sv, map, ord) ==
  LET eff(K, F) == get_names_of_classes_in_effective_range_of_slot(sv, induced_slot(sv, F, K))
      target_collections == ListOfSet(DOMAIN map, ord.collections)
      of_target(C, K, F, T) ==
        Concat([i \in 1..Len(target_collections) |->
                  IF T \in map[target_collections[i]]
                  THEN <<Reference(C, K, F, target_collections[i], T)>>
                  ELSE <<>>])
      of_slot(C, K, F) ==
        LET targets == ListOfSet(eff(K, F).names, ord.ranges[induced_slot(sv, F, K)])
        IN  Concat([i \in 1..Len(targets) |-> of_target(C, K, F, targets[i])])
      of_class(C, K) ==
        LET slot_names == class_slots(sv, K)
        IN  Concat([i \in 1..Len(slot_names) |-> of_slot(C, K, slot_names[i])])
      of_collection(C) ==
        LET class_names == ListOfSet(map[C], ord.classes[C])
        IN  Concat([i \in 1..Len(class_names) |-> of_class(C, class_names[i])])
      sorted_collection_names == ListOfSet(DOMAIN map, SortedByLowercase)
  IN  [raised |-> \E C \in DOMAIN map : \E K \in map[C] :
                    \E F \in Range(class_slots(sv, K)) : eff(K, F).raised,
       data |-> Concat([i \in 1..Len(sorted_collection_names) |->
                          of_collection(sorted_collection_names[i])])]

(***************************************************************************)
(* Building the catalog: cli/scan.py computes the collection-to-classes    *)
(* map of the schema and hands it to identify_references.                  *)
(***************************************************************************)
\* What a range can name: a class, the type string, a name defined nowhere.
Types == {"string"}
RangeNames == {"Company", "Employee", "Startup", "Ghost", "string"}

NoStore == [c \in CollNames |-> <<>>]

ClassDef(is_a, slots, class_uri, slot_usage) ==
  [is_a |-> is_a, slots |-> slots, class_uri |-> class_uri, slot_usage |-> slot_usage]

SlotDef(range, any_of, is_collection) ==
  [range |-> range, any_of |-> any_of,
   multivalued |-> is_collection, inlined_as_list |-> is_collection]

\* The schemas of the family: Startup stands alone or inherits from Company or
\* Employee, and may refine works_for; works_for has a range and an any_of of
\* at most MaxAnyOf disjuncts; company_set holds Company or Startup;
\* employee_set holds Employee, or Employee and Startup.
Schemas ==
  {[classes |->
      [K \in {"Database", "Company", "Employee", "Startup"} |->
         CASE K = "Database" -> ClassDef(None, <<"company_set", "employee_set", "db_version">>,
                                         "refscan:Database", <<>>)
           [] K = "Company"  -> ClassDef(None, <<"name", "shareholders">>, "refscan:Company", <<>>)
           [] K = "Employee" -> ClassDef(None, <<"name", "works_for">>, "refscan:Employee", <<>>)
           [] K = "Startup"  -> ClassDef(p.startup_is_a, <<>>, "refscan:Startup", p.startup_usage)],
    slots |->
      [F \in {"company_set", "employee_set", "db_version", "name", "shareholders", "works_for"} |->
         CASE F = "company_set"  -> SlotDef(p.company_set_range, <<>>, TRUE)
           [] F = "employee_set" -> SlotDef("Employee", p.employee_set_any_of, TRUE)
           [] F = "db_version"   -> SlotDef("string", <<>>, FALSE)
           [] F = "name"         -> SlotDef("string", <<>>, FALSE)
           [] F = "shareholders" -> SlotDef("Employee", <<>>, FALSE)
           [] F = "works_for"    -> SlotDef(p.works_for_range, p.works_for_any_of, FALSE)]] :
   p \in [startup_is_a : {None, "Company", "Employee"},
          startup_usage : {<<>>, "works_for" :> [range |-> "Employee"]},
          company_set_range : {"Company", "Startup"},
          employee_set_any_of : {<<>>, <<"Employee", "Startup">>},
          works_for_range : {"Company", "Ghost", "string"},
          works_for_any_of : ListsOver(RangeNames, MaxAnyOf)]}

\* The names in one order.
NameOrder ==
  <<"a_set", "b_set", "c_set", "company_set", "employee_set", "startup_set", "db_version",
    "Company", "Employee", "Startup", "Database",
    "name", "shareholders", "works_for">>

\* The slot definitions identify_references asks the effective range of:
\* those of the slots of the classes of the map.
SlotDefinitionsOf(sv, map) ==
  UNION {{induced_slot(sv, class_slots(sv, K)[i], K) : i \in 1..Len(class_slots(sv, K))} :
           K \in UNION {map[C] : C \in DOMAIN map}}

\* The orders of the effective range of slot definition d that differ in the
\* place of a class some collection of the map holds.  A class that no
\* collection holds adds no Reference wherever it stands, so of the orders
\* that differ in the place of such classes only, one is kept: the one that
\* has them last.
RangeOrders(sv, map, d) ==
  LET names == get_names_of_classes_in_effective_range_of_slot(sv, d).names
      stored == names \cap UNION {map[C] : C \in DOMAIN map}
  IN  {o \o ListOfSet(names \ stored, NameOrder) : o \in Orders(stored)}

\* The orders the lists of one catalog build can come in: every list made by
\* list(set(...)) has an order of its own (helpers.py:54 for the collection
\* names, which is the order of the keys of the map, and helpers.py:221 for
\* the classes of each collection and for the effective range of each slot
\* definition).
HashOrdersOf(sv, map) ==
  LET ranges == [d \in SlotDefinitionsOf(sv, map) |-> RangeOrders(sv, map, d)]
  IN  [collections : Orders(DOMAIN map),
       classes : OrdersEach(map),
       ranges : ChoicesEach(ranges)]

\* The orders of one catalog build in which every list follows NameOrder.
NameOrdersOf(sv, map) ==
  [collections |-> ListOfSet(DOMAIN map, NameOrder),
   classes |-> [C \in DOMAIN map |-> ListOfSet(map[C], NameOrder)],
   ranges |-> [d \in SlotDefinitionsOf(sv, map) |->
                 ListOfSet(get_names_of_classes_in_effective_range_of_slot(sv, d).names,
                           NameOrder)]]

\* The orders the lists of a scan can come in: the collection names in any
\* order, the other names after them.
HashOrders ==
  {o \o SelectSeq(NameOrder, LAMBDA n : ~InSeq(o, n)) :
     o \in Orders({"company_set", "employee_set", "startup_set"})}

InitCatalog ==
  /\ schema_view \in Schemas
  /\ references = NoReferences
  /\ files = NoFiles
  /\ other_finder = NoOtherFinder
  /\ db = NoStore
  /\ txn = NoTxn
  /\ InitFinder
  /\ call = [op |-> "init"]

\* cli/scan.py: the map of the schema, then the catalog built from it.
BuildCatalog ==
  /\ call.op = "init"
  /\ references = NoReferences
  /\ \E ord \in HashOrdersOf(schema_view,
                              get_collection_name_to_class_names_map(schema_view).map) :
       LET m == get_collection_name_to_class_names_map(schema_view)
           r == identify_references(schema_view, m.map, ord)
       IN  references' = IF m.raised \/ r.raised
                         THEN [built |-> TRUE, raised |-> TRUE, data |-> <<>>]
                         ELSE [built |-> TRUE, raised |-> FALSE, data |-> r.data]
  /\ call' = [op |-> "identify_references"]
  /\ UNCHANGED <<db, txn, cached_collection_names_where_recently_found,
                 cached_id_presence_by_collection, schema_view, files, other_finder>>

\* A call of get_names_of_classes_in_effective_range_of_slot on the definition
\* of a slot as used on a class of the schema; the list it returns is the set
\* of names in the order ord.
EffectiveRange ==
  /\ call.op = "init"
  /\ \E K \in all_classes(schema_view) :
       \E F \in Range(class_slots(schema_view, K)) :
         LET slot_definition == induced_slot(schema_view, F, K)
             r == get_names_of_classes_in_effective_range_of_slot(schema_view, slot_definition)
         IN  \E ord \in Orders(r.names) :
               call' = [op |-> "get_names_of_classes_in_effective_range_of_slot",
                        slot_definition |-> slot_definition,
                        raised |-> r.raised,
                        names |-> ListOfSet(r.names, ord)]
  /\ UNCHANGED <<db, txn, cached_collection_names_where_recently_found,
                 cached_id_presence_by_collection, schema_view, references, files, other_finder>>

NextCatalog == BuildCatalog \/ EffectiveRange

SpecCatalog == InitCatalog /\ [][NextCatalog]_vars

\* Class K is B or inherits from it, by K's own line of parents.
IsA(sv, K, B) == K \in all_classes(sv) /\ InSeq(class_ancestors(sv, K), B)

\* Class T is in the effective range of the slot definition.
InEffectiveRange(sv, T, slot_definition) ==
  \E B \in DeclaredRange(slot_definition) : IsA(sv, T, B)

\* C14: get_names_of_classes_in_effective_range_of_slot returns, each name
\* once, exactly the classes that are a declared class or inherit from one:
\* the declared classes are the any_of disjuncts when there are any (the
\* range is then not used), else the range.
C14_EffectiveRangeIsUnionOfDescendants ==
  call.op = "get_names_of_classes_in_effective_range_of_slot" =>
    /\ ~call.raised
    /\ \A i, j \in 1..Len(call.names) : call.names[i] = call.names[j] => i = j
    /\ Range(call.names) =
         {T \in all_classes(schema_view) :
            IF Len(call.slot_definition.any_of) > 0
            THEN \E k \in 1..Len(call.slot_definition.any_of) :
                   IsA(schema_view, T, call.slot_definition.any_of[k])
            ELSE IsA(schema_view, T, call.slot_definition.range)}

\* The any_of names two classes and the subclass of one of them is added,
\* while the range names nothing that is in the result.
C14_Witness ==
  /\ call.op = "get_names_of_classes_in_effective_range_of_slot"
  /\ call.slot_definition.any_of = <<"Company", "Employee">>
  /\ call.slot_definition.range = "Ghost"
  /\ schema_view.classes["Startup"].is_a = "Employee"
  /\ Len(call.names) = 3

\* C15: the catalog never holds two equal References: no two entries agree
\* on source collection, source class, source field, target collection and
\* target class.
C15_NoTwoEqualReferences ==
  references.built /\ ~references.raised =>
    \A i, j \in 1..Len(references.data) :
      reference_eq(references.data[i], references.data[j]) => i = j

\* A catalog of a schema in which Company and its subclass Startup are
\* stored in company_set, Startup is also eligible for employee_set, and a
\* field may name a Startup: References that differ in the source class only,
\* and References that differ in the target collection only.
C15_Witness ==
  /\ references.built /\ ~references.raised
  /\ schema_view.classes["Startup"].is_a = "Company"
  /\ schema_view.slots["employee_set"].any_of = <<"Employee", "Startup">>
  /\ schema_view.slots["works_for"].any_of = <<"Company", "Startup">>
  /\ \E i, j \in 1..Len(references.data) :
       /\ references.data[i].source_class_name # references.data[j].source_class_name
       /\ references.data[i].source_collection_name = references.data[j].source_collection_name
       /\ references.data[i].source_field_name = references.data[j].source_field_name
       /\ references.data[i].target_collection_name = references.data[j].target_collection_name
       /\ references.data[i].target_class_name = references.data[j].target_class_name
  /\ \E i, j \in 1..Len(references.data) :
       /\ references.data[i].target_collection_name # references.data[j].target_collection_name
       /\ references.data[i].source_class_name = references.data[j].source_class_name
       /\ references.data[i].source_collection_name = references.data[j].source_collection_name
       /\ references.data[i].source_field_name = references.data[j].source_field_name
       /\ references.data[i].target_class_name = references.data[j].target_class_name

\* The collections of the schema, and the classes eligible for one.
CollectionsOf(sv) ==
  {C \in Range(sv.classes[DATABASE_CLASS_NAME].slots) :
     sv.slots[C].multivalued /\ sv.slots[C].inlined_as_list}

EligibleFor(sv, K, C) ==
  InEffectiveRange(sv, K, induced_slot(sv, C, DATABASE_CLASS_NAME))

\* F is a slot of class K, its own or an inherited one.
IsSlotOf(sv, F, K) ==
  \E k \in 1..Len(class_ancestors(sv, K)) : F \in Range(sv.classes[class_ancestors(sv, K)[k]].slots)

\* The References the schema allows.
AllowedReferences(sv) ==
  {r \in [source_collection_name : CollectionsOf(sv),
          source_class_name : all_classes(sv),
          source_field_name : DOMAIN sv.slots,
          target_collection_name : CollectionsOf(sv),
          target_class_name : all_classes(sv)] :
     /\ EligibleFor(sv, r.source_class_name, r.source_collection_name)
     /\ IsSlotOf(sv, r.source_field_name, r.source_class_name)
     /\ InEffectiveRange(sv, r.target_class_name,
                         induced_slot(sv, r.source_field_name, r.source_class_name))
     /\ EligibleFor(sv, r.target_class_name, r.target_collection_name)}

\* C4: the catalog holds a Reference (C, K, F, C2, T) exactly when K is eligible
\* for C, F is a slot of K, T is in the effective range of F as induced on K,
\* and T is eligible for C2.
C4_CatalogCompleteAndConservative ==
  references.built =>
    /\ ~references.raised
    /\ Range(references.data) = AllowedReferences(schema_view)

C4_Witness ==
  /\ references.built
  /\ \E i, j \in 1..Len(references.data) :
       /\ references.data[i].source_class_name = "Startup"
       /\ references.data[i].source_field_name = "works_for"
       /\ references.data[i].target_class_name = "Employee"
       /\ references.data[j].target_class_name = "Startup"
       /\ references.data[j].target_collection_name = "company_set"

\* Some field of a stored class declares a range that is neither a class of
\* the schema nor a type.
NamesUndefinedClass(sv) ==
  \E C \in CollectionsOf(sv) : \E K \in all_classes(sv) :
    /\ EligibleFor(sv, K, C)
    /\ \E F \in Range(class_slots(sv, K)) :
         \E b \in DeclaredRange(induced_slot(sv, F, K)) :
           b \notin all_classes(sv) /\ b \notin Types

\* C9: building the catalog raises whenever the effective range of a field
\* names a class the schema does not define.
C9_UndefinedClassRaises ==
  (references.built /\ NamesUndefinedClass(schema_view)) => references.raised

\* What the builder does on such a schema: it completes normally; the
\* undefined name adds no target class, so every Reference names classes of
\* the schema.
UndefinedClassSkipped ==
  (references.built /\ NamesUndefinedClass(schema_view)) =>
    /\ ~references.raised
    /\ \A i \in 1..Len(references.data) :
         /\ references.data[i].target_class_name \in all_classes(schema_view)
         /\ references.data[i].source_class_name \in all_classes(schema_view)

\* The builder has completed on a schema that names an undefined class.
UndefinedClassReached ==
  /\ references.built
  /\ NamesUndefinedClass(schema_view)
  /\ ~references.raised
  /\ \E i \in 1..Len(references.data) : references.data[i].source_field_name = "works_for"

(***************************************************************************)
(* lib/ReferenceList.py: the queries of the catalog, over its list of      *)
(* Reference.  A query that answers with a list of distinct names returns  *)
(* the set of them here; the caller orders it.                             *)
(***************************************************************************)
get_source_collection_names(refs) ==
  {refs[k].source_collection_name : k \in 1..Len(refs)}

get_source_field_names_of_source_collection(refs, collection_name) ==
  {refs[k].source_field_name :
     k \in {j \in 1..Len(refs) : refs[j].source_collection_name = collection_name}}

\* A slip in get_target_collection_names: the source class is not compared.
get_target_collection_names_of_field(refs, source_class_name, source_field_name) ==
  {refs[k].target_collection_name :
     k \in {j \in 1..Len(refs) : refs[j].source_field_name = source_field_name}}

\* A slip in get_target_collection_names: the source field is not compared.
get_target_collection_names_of_class(refs, source_class_name, source_field_name) ==
  {refs[k].target_collection_name :
     k \in {j \in 1..Len(refs) : refs[j].source_class_name = source_class_name}}

get_target_collection_names(refs, source_class_name, source_field_name) ==
  {refs[k].target_collection_name :
     k \in {j \in 1..Len(refs) : /\ refs[j].source_class_name = source_class_name
                                /\ refs[j].source_field_name = source_field_name}}

\* The classes and fields the catalog is asked about: those of the schema, a
\* class the schema does not define and a field no class has.
QueriedClassNames == {"Company", "Employee", "Startup", "Ghost"}
QueriedFieldNames == {"shareholders", "works_for", "foo"}

\* A call of get_target_collection_names on the catalog that was built.
GetTargetCollectionNames ==
  /\ call.op = "identify_references"
  /\ references.built /\ ~references.raised
  /\ \E source_class_name \in QueriedClassNames, source_field_name \in QueriedFieldNames :
       \E ord \in Orders(get_target_collection_names(
                           references.data, source_class_name, source_field_name)) :
         call' = [op |-> "get_target_collection_names",
                  source_class_name |-> source_class_name,
                  source_field_name |-> source_field_name,
                  raised |-> None,
                  names |-> ListOfSet(get_target_collection_names(
                                        references.data, source_class_name, source_field_name),
                                      ord)]
  /\ UNCHANGED <<db, txn, cached_collection_names_where_recently_found,
                 cached_id_presence_by_collection, schema_view, references, files, other_finder>>

\* The catalog in use: it is built, and then asked.
NextCatalogQueries == BuildCatalog \/ GetTargetCollectionNames

SpecCatalogQueries == InitCatalog /\ [][NextCatalogQueries]_vars

\* C16: get_target_collection_names returns exactly the target collections
\* of the References that have the given source class and source field, and
\* returns an empty collection, raising nothing, when no Reference has them.
C16_TargetCollectionsOfClassAndField ==
  call.op = "get_target_collection_names" =>
    /\ call.raised = None
    /\ \A c \in Range(call.names) :
         \E i \in 1..Len(references.data) :
           /\ references.data[i].source_class_name = call.source_class_name
           /\ references.data[i].source_field_name = call.source_field_name
           /\ references.data[i].target_collection_name = c
    /\ \A i \in 1..Len(references.data) :
         (/\ references.data[i].source_class_name = call.source_class_name
          /\ references.data[i].source_field_name = call.source_field_name)
           => InSeq(call.names, references.data[i].target_collection_name)
    /\ (~\E i \in 1..Len(references.data) :
          /\ references.data[i].source_class_name = call.source_class_name
          /\ references.data[i].source_field_name = call.source_field_name)
         => call.names = <<>>

\* A class and field with two target collections, in a catalog where the
\* same field on another class has none.
C16_Witness ==
  /\ call.op = "get_target_collection_names"
  /\ Len(call.names) = 2
  /\ \E i \in 1..Len(references.data) :
       /\ references.data[i].source_field_name = call.source_field_name
       /\ references.data[i].source_class_name # call.source_class_name

\* C27: in a catalog built by identify_references, the answer of
\* get_target_collection_names for a class and a field is, for every
\* collection the class is stored in, the set of target collections of the
\* References with that collection, class and field: the source collection
\* makes no difference.
C27_TargetsIndependentOfSourceCollection ==
  call.op = "get_target_collection_names" =>
    \A C \in CollectionsOf(schema_view) :
      EligibleFor(schema_view, call.source_class_name, C) =>
        Range(call.names) =
          {references.data[i].target_collection_name :
             i \in {j \in 1..Len(references.data) :
                      /\ references.data[j].source_collection_name = C
                      /\ references.data[j].source_class_name = call.source_class_name
                      /\ references.data[j].source_field_name = call.source_field_name}}

\* A class stored in two collections, asked about a field that has targets.
C27_Witness ==
  /\ call.op = "get_target_collection_names"
  /\ call.names # <<>>
  /\ Cardinality({C \in CollectionsOf(schema_view) :
                    EligibleFor(schema_view, call.source_class_name, C)}) = 2

get_reference_field_names_by_source_class_name(refs) ==
  [K \in {refs[k].source_class_name : k \in 1..Len(refs)} |->
     {refs[k].source_field_name : k \in {j \in 1..Len(refs) : refs[j].source_class_name = K}}]

get_by_target_class_name(refs, target_class_name) ==
  SelectSeq(refs, LAMBDA r : r.target_class_name = target_class_name)

group_by_source_collection_name(refs) ==
  [c \in get_source_collection_names(refs) |->
     SelectSeq(refs, LAMBDA r : r.source_collection_name = c)]

(***************************************************************************)
(* lib/Violation.py.  The dataclass has six fields, all required: a call   *)
(* with a keyword that is none of them, or without one of them, raises     *)
(* TypeError.  The keywords of a call are a function from names to values. *)
(***************************************************************************)
ViolationFields ==
  {"source_collection_name", "source_field_name", "source_document_object_id",
   "source_document_id", "target_id", "name_of_collection_containing_target"}

Violation(kwargs) ==
  IF DOMAIN kwargs = ViolationFields
  THEN [raised |-> None, value |-> kwargs]
  ELSE [raised |-> "TypeError", value |-> <<>>]

(***************************************************************************)
(* scanner.py.  The value of a reference field is a scalar,                *)
(* [is_list |-> FALSE, item |-> id], or a list,                            *)
(* [is_list |-> TRUE, items |-> <<id, ...>>].  A call that raises returns  *)
(* nothing: its outcome is [raised |-> the exception, ...].                *)
(***************************************************************************)
\* The target ids of a field value: the list itself, or a one-item list.
target_ids_of(value) == IF value.is_list THEN value.items ELSE <<value.item>>

\* The (field, target id) pairs the loops of scan_outgoing_references visit,
\* in the order they visit them.
occurrences_of(document, names_of_reference_fields) ==
  Concat([i \in 1..Len(names_of_reference_fields) |->
            LET field_name == names_of_reference_fields[i]
            IN  IF field_name \in DOMAIN document
                THEN [j \in 1..Len(target_ids_of(document[field_name])) |->
                        [field_name |-> field_name,
                         target_id |-> target_ids_of(document[field_name])[j]]]
                ELSE <<>>])

\* isinstance(source_document_id, str)
IsStr(value) == value # None /\ value # NonStr

\* The arguments of a call of scan_outgoing_references, but the document.
ScanArgs(sv, refs, source_collection_name, session, locate, ord) ==
  [schema_view |-> sv, references |-> refs, source_collection_name |-> source_collection_name,
   client_session |-> session, user_wants_to_locate_misplaced_documents |-> locate, ord |-> ord]

\* The loops of scan_outgoing_references from the k-th occurrence on.  When
\* building a Violation raises, violation_kwargs holds the keyword arguments
\* of the call that raised.
RECURSIVE scan_outgoing_loop(_, _, _, _, _, _, _, _)
scan_outgoing_loop(occurrences, k, document, source_class_name, args, queue, cache, violations) ==
  IF k > Len(occurrences)
  THEN [raised |-> None, violations |-> violations, violation_kwargs |-> <<>>,
        queue |-> queue, cache |-> cache]
  ELSE
    LET field_name == occurrences[k].field_name
        target_id == occurrences[k].target_id
        target_collection_names ==
          ListOfSet(get_target_collection_names(args.references, source_class_name, field_name),
                    args.ord)
        legal == check_whether_document_having_id_exists_among_collections(
                   queue, cache, target_id, target_collection_names, args.client_session)
        names_of_ineligible_collections ==
          ListOfSet(get_collection_names_from_schema(args.schema_view)
                      \ Range(target_collection_names), args.ord)
        found == IF legal.result = None /\ args.user_wants_to_locate_misplaced_documents
                 THEN check_whether_document_having_id_exists_among_collections(
                        legal.queue, legal.cache, target_id,
                        names_of_ineligible_collections, args.client_session)
                 ELSE legal
        source_document_id == IF "id" \in DOMAIN document /\ IsStr(document["id"])
                              THEN document["id"] ELSE ""
        kwargs == [source_collection_name |-> args.source_collection_name,
                   source_class_name |-> source_class_name,
                   source_field_name |-> field_name,
                   source_document_object_id |-> document["_id"],
                   source_document_id |-> source_document_id,
                   target_id |-> target_id,
                   name_of_collection_containing_target |-> found.result]
        violation == Violation(kwargs)
    IN  IF legal.result # None
        THEN scan_outgoing_loop(occurrences, k + 1, document, source_class_name, args,
                                legal.queue, legal.cache, violations)
        ELSE IF violation.raised # None
        THEN [raised |-> violation.raised, violations |-> <<>>, violation_kwargs |-> <<kwargs>>,
              queue |-> found.queue, cache |-> found.cache]
        ELSE scan_outgoing_loop(occurrences, k + 1, document, source_class_name, args,
                                found.queue, found.cache, Append(violations, violation.value))

\* The reference fields scan_outgoing_references and the scan command go
\* through for a document of the class, in the order they take them.
names_of_reference_fields_of(args, source_class_name) ==
  LET by_class == get_reference_field_names_by_source_class_name(args.references)
  IN  IF source_class_name \in DOMAIN by_class
      THEN ListOfSet(by_class[source_class_name], args.ord)
      ELSE <<>>

\* A slip in scan_outgoing_references: the other collections are searched
\* whether or not the caller asked for misplaced documents to be located.
scan_outgoing_references_always_locating(document, args, queue, cache) ==
  IF derive_schema_class_name_from_document(args.schema_view, document) = None
  THEN [raised |-> "ValueError", violations |-> <<>>, violation_kwargs |-> <<>>,
        queue |-> queue, cache |-> cache]
  ELSE scan_outgoing_loop(
         occurrences_of(document,
                        names_of_reference_fields_of(
                          args, derive_schema_class_name_from_document(args.schema_view, document))),
         1, document, derive_schema_class_name_from_document(args.schema_view, document),
         [args EXCEPT !.user_wants_to_locate_misplaced_documents = TRUE], queue, cache, <<>>)

\* scan_outgoing_references, on the Finder whose caches are queue and cache.
scan_outgoing_references(document, args, queue, cache) ==
  LET source_class_name == derive_schema_class_name_from_document(args.schema_view, document)
  IN  IF source_class_name = None
      THEN [raised |-> "ValueError", violations |-> <<>>, violation_kwargs |-> <<>>,
            queue |-> queue, cache |-> cache]
      ELSE scan_outgoing_loop(
             occurrences_of(document, names_of_reference_fields_of(args, source_class_name)), 1,
             document, source_class_name, args, queue, cache, <<>>)

\* Whether a stored field value matches the query term {field: value}: the
\* scalar equals it, or the list holds it.
FieldMatches(field_value, value) == InSeq(target_ids_of(field_value), value)

\* The document with only the keys of the projection, and "_id".
Project(document, projection) ==
  [key \in DOMAIN document \cap (projection \cup {"_id"}) |-> document[key]]

\* A slip in find_documents_having_type_and_value_in_field: the query terms
\* leave out the type, {field_name: value} only.
find_documents_having_value_in_field(collection_name, type_and_field_name_tuples, value, session) ==
  LET matching == SelectSeq(CollectionView(collection_name, session),
                    LAMBDA d : \E t \in type_and_field_name_tuples :
                                 t[2] \in DOMAIN d /\ FieldMatches(d[t[2]], value))
  IN  [k \in 1..Len(matching) |-> Project(matching[k], {"id", "type"})]

\* Finder.find_documents_having_type_and_value_in_field
find_documents_having_type_and_value_in_field(collection_name, type_and_field_name_tuples, value, session) ==
  LET matching == SelectSeq(CollectionView(collection_name, session),
                    LAMBDA d : \E t \in type_and_field_name_tuples :
                                 /\ "type" \in DOMAIN d /\ d["type"] = t[1]
                                 /\ t[2] \in DOMAIN d /\ FieldMatches(d[t[2]], value))
  IN  [k \in 1..Len(matching) |-> Project(matching[k], {"id", "type"})]

\* The descriptors of identify_referring_documents for one source collection.
referring_descriptors(sv, collection_name, referring_documents) ==
  [k \in 1..Len(referring_documents) |->
     LET referring_document == referring_documents[k]
     IN  [source_collection_name |-> collection_name,
          source_class_name |->
            translate_class_uri_into_schema_class_name(sv, referring_document["type"]),
          source_document_object_id |-> referring_document["_id"],
          source_document_id |->
            IF "id" \in DOMAIN referring_document /\ IsStr(referring_document["id"])
            THEN referring_document["id"] ELSE ""]]

\* identify_referring_documents
identify_referring_documents(document, sv, refs, session, ord) ==
  LET document_class_name == derive_schema_class_name_from_document(sv, document)
      grouped == group_by_source_collection_name(get_by_target_class_name(refs, document_class_name))
      collections == ListOfSet(DOMAIN grouped, ord)
      tuples(c) == {<<translate_schema_class_name_into_class_uri(sv, grouped[c][k].source_class_name),
                      grouped[c][k].source_field_name>> : k \in 1..Len(grouped[c])}
  IN  IF "id" \notin DOMAIN document
      THEN [raised |-> None, descriptors |-> <<>>]
      ELSE IF document_class_name = None
      THEN [raised |-> "ValueError", descriptors |-> <<>>]
      ELSE IF \E c \in DOMAIN grouped : \E t \in tuples(c) : t[1] = None
      THEN [raised |-> "ValueError", descriptors |-> <<>>]
      ELSE [raised |-> None,
            descriptors |->
              Concat([i \in 1..Len(collections) |->
                        referring_descriptors(sv, collections[i],
                          find_documents_having_type_and_value_in_field(
                            collections[i], tuples(collections[i]), document["id"], session))])]

\* sorted(names): the names used here are lowercase, so their order is their
\* order by lowercase.
sorted(names) == ListOfSet(names, SortedByLowercase)

\* The documents scan fetches from a source collection: those that have any of
\* its reference fields, projected on these fields, "id" and "type".
relevant_documents(refs, source_collection_name) ==
  LET source_field_names == get_source_field_names_of_source_collection(refs, source_collection_name)
      found == SelectSeq(CollectionView(source_collection_name, FALSE),
                         LAMBDA d : \E f \in source_field_names : f \in DOMAIN d)
  IN  [k \in 1..Len(found) |->
         [source_collection_name |-> source_collection_name,
          document |-> Project(found[k], source_field_names \cup {"id", "type"})]]

\* db.get_collection(collection_name) is None: get_collection makes a handle
\* for any name and asks the server nothing, so the test never succeeds.
get_collection_is_None(collection_name) == FALSE

\* The source collections scan processes, in order: those of the catalog
\* for which get_collection is not None, less the ones to skip.
scanned_collections(refs, names_of_source_collections_to_skip) ==
  LET source_collection_names_in_db ==
        {c \in get_source_collection_names(refs) : ~get_collection_is_None(c)}
  IN  SelectSeq(sorted(source_collection_names_in_db),
                LAMBDA c : ~InSeq(names_of_source_collections_to_skip, c))

\* The loop of scan over the documents it fetches, from the k-th on.
RECURSIVE scan_loop(_, _, _, _, _, _)
scan_loop(work, k, args, queue, cache, result) ==
  IF k > Len(work) THEN [raised |-> None, result |-> result, failed_in |-> None]
  ELSE LET c == work[k].source_collection_name
           r == scan_outgoing_references(
                  work[k].document, [args EXCEPT !.source_collection_name = c], queue, cache)
       IN  IF r.raised # None
           THEN [raised |-> r.raised, result |-> <<>>, failed_in |-> c]
           ELSE scan_loop(work, k + 1, args, r.queue, r.cache,
                          [result EXCEPT ![c] = result[c] \o r.violations])

\* scan of scanner.py: it makes its own Finder.  queried lists the
\* collections on which count_documents and find were issued, in order:
\* all the processed ones, or those up to the one whose document raised.
scan_outcome(collections, r) ==
  [raised |-> r.raised, result |-> r.result,
   queried |-> IF r.raised = None THEN collections
               ELSE Prefix(collections,
                           CHOOSE i \in 1..Len(collections) : collections[i] = r.failed_in)]

scan(sv, refs, names_of_source_collections_to_skip, locate, ord) ==
  LET collections == scanned_collections(refs, names_of_source_collections_to_skip)
      work == Concat([i \in 1..Len(collections) |-> relevant_documents(refs, collections[i])])
  IN  scan_outcome(collections,
                   scan_loop(work, 1, ScanArgs(sv, refs, None, FALSE, locate, ord), <<>>, <<>>,
                             [c \in Range(collections) |-> <<>>]))

(***************************************************************************)
(* refscan.py: the scan command, whose loop over the documents does the    *)
(* work of scan_outgoing_references itself.                                *)
(***************************************************************************)
\* The loops over one document's fields and target ids, from the k-th
\* occurrence on: the violations are appended to the collection's list.
RECURSIVE refscan_document_loop(_, _, _, _, _, _, _, _)
refscan_document_loop(occurrences, k, document, source_class_name, args, queue, cache, violations) ==
  IF k > Len(occurrences)
  THEN [raised |-> None, violations |-> violations, queue |-> queue, cache |-> cache]
  ELSE
    LET field_name == occurrences[k].field_name
        target_id == occurrences[k].target_id
        target_collection_names ==
          ListOfSet(get_target_collection_names(args.references, source_class_name, field_name),
                    args.ord)
        legal == check_whether_document_having_id_exists_among_collections(
                   queue, cache, target_id, target_collection_names, FALSE)
        names_of_ineligible_collections ==
          ListOfSet(get_collection_names_from_schema(args.schema_view)
                      \ Range(target_collection_names), args.ord)
        found == IF legal.result = None /\ args.user_wants_to_locate_misplaced_documents
                 THEN check_whether_document_having_id_exists_among_collections(
                        legal.queue, legal.cache, target_id,
                        names_of_ineligible_collections, FALSE)
                 ELSE legal
        violation ==
          Violation([source_collection_name |-> args.source_collection_name,
                     source_field_name |-> field_name,
                     source_document_object_id |-> document["_id"],
                     source_document_id |-> IF "id" \in DOMAIN document
                                            THEN document["id"] ELSE None,
                     target_id |-> target_id,
                     name_of_collection_containing_target |-> found.result])
    IN  IF legal.result # None
        THEN refscan_document_loop(occurrences, k + 1, document, source_class_name, args,
                                   legal.queue, legal.cache, violations)
        ELSE IF violation.raised # None
        THEN [raised |-> violation.raised, violations |-> <<>>,
              queue |-> found.queue, cache |-> found.cache]
        ELSE refscan_document_loop(occurrences, k + 1, document, source_class_name, args,
                                   found.queue, found.cache, Append(violations, violation.value))

\* The body of the loop over the documents, for one document.
refscan_document(document, args, queue, cache) ==
  LET source_class_name == derive_schema_class_name_from_document(args.schema_view, document)
      by_class == get_reference_field_names_by_source_class_name(args.references)
      names_of_reference_fields ==
        IF source_class_name \in DOMAIN by_class
        THEN ListOfSet(by_class[source_class_name], args.ord)
        ELSE <<>>
  IN  refscan_document_loop(occurrences_of(document, names_of_reference_fields), 1,
                            document, source_class_name, args, queue, cache, <<>>)

\* The loop of the command over the documents it fetches, from the k-th on.
RECURSIVE refscan_scan_loop(_, _, _, _, _, _)
refscan_scan_loop(work, k, args, queue, cache, result) ==
  IF k > Len(work) THEN [raised |-> None, result |-> result]
  ELSE LET c == work[k].source_collection_name
           r == refscan_document(
                  work[k].document, [args EXCEPT !.source_collection_name = c], queue, cache)
       IN  IF r.raised # None
           THEN [raised |-> r.raised, result |-> <<>>]
           ELSE refscan_scan_loop(work, k + 1, args, r.queue, r.cache,
                                  [result EXCEPT ![c] = result[c] \o r.violations])

\* [field_.name for field_ in fields(Violation)]: the names as declared.
ViolationFieldOrder ==
  <<"source_collection_name", "source_field_name", "source_document_object_id",
    "source_document_id", "target_id", "name_of_collection_containing_target">>

\* astuple(violation): the values of all the fields, as declared.
astuple(violation) == [i \in 1..Len(ViolationFieldOrder) |-> violation[ViolationFieldOrder[i]]]

\* The cell csv.writer writes for a value: nothing for None.  The object id
\* (the third field) is written as it prints.
csv_row(values) ==
  [i \in 1..Len(values) |->
     IF ViolationFieldOrder[i] = "source_document_object_id" THEN values[i]
     ELSE IF values[i] = None THEN "" ELSE values[i]]

\* The column names of the header row.
column_names(include_name_of_collection_containing_target) ==
  IF include_name_of_collection_containing_target
  THEN ViolationFieldOrder
  ELSE SelectSeq(ViolationFieldOrder, LAMBDA cn : cn # "name_of_collection_containing_target")

\* ViolationList.dump_to_tsv_file: the rows of the file it writes.
dump_to_tsv_file(data, include_name_of_collection_containing_target) ==
  <<column_names(include_name_of_collection_containing_target)>>
    \o [k \in 1..Len(data) |-> csv_row(astuple(data[k]))]

\* The field names of Reference as declared, and the reference report:
\* ReferenceList.dump_to_tsv_file writes a header row and a row per Reference.
ReferenceFieldOrder ==
  <<"source_collection_name", "source_class_name", "source_field_name",
    "target_collection_name", "target_class_name">>

reference_report(refs) ==
  <<ReferenceFieldOrder>>
    \o [k \in 1..Len(refs) |-> [i \in 1..Len(ReferenceFieldOrder) |-> refs[k][ReferenceFieldOrder[i]]]]

\* What connect_to_database can meet: a server with the database, no server
\* address, a server without the database.
ServerStates == {"connected", "unreachable", "no_database"}

\* The scan command of refscan.py, from its Finder to the violations of each
\* source collection.
refscan_scan(sv, refs, names_of_source_collections_to_skip, locate, ord) ==
  LET collections == scanned_collections(refs, names_of_source_collections_to_skip)
      work == Concat([i \in 1..Len(collections) |-> relevant_documents(refs, collections[i])])
  IN  refscan_scan_loop(work, 1, ScanArgs(sv, refs, None, FALSE, locate, ord), <<>>, <<>>,
                        [c \in Range(collections) |-> <<>>])

(***************************************************************************)
(* Scanning.  The schema: a Company has shareholders, who are Employees;   *)
(* an Employee works for a Company; a Startup is a Company.  company_set   *)
(* holds Company (and so Startup), employee_set Employee, startup_set       *)
(* Startup.  Each operation works on a Finder made for it, so what it does *)
(* never depends on an earlier one: a behaviour is one operation on one    *)
(* store.                                                                  *)
(***************************************************************************)
ScanCollNames == {"company_set", "employee_set", "startup_set"}

ScanSchema ==
  [classes |->
     [K \in {"Database", "Company", "Employee", "Startup"} |->
        CASE K = "Database" -> ClassDef(None, <<"company_set", "employee_set", "startup_set">>,
                                        "refscan:Database", <<>>)
          [] K = "Company"  -> ClassDef(None, <<"name", "shareholders">>, "refscan:Company", <<>>)
          [] K = "Employee" -> ClassDef(None, <<"name", "works_for">>, "refscan:Employee", <<>>)
          [] K = "Startup"  -> ClassDef("Company", <<>>, "refscan:Startup", <<>>)],
   slots |->
     [F \in ScanCollNames \cup {"name", "shareholders", "works_for"} |->
        CASE F = "company_set"  -> SlotDef("Company", <<>>, TRUE)
          [] F = "employee_set" -> SlotDef("Employee", <<>>, TRUE)
          [] F = "startup_set"  -> SlotDef("Startup", <<>>, TRUE)
          [] F = "name"         -> SlotDef("string", <<>>, FALSE)
          [] F = "shareholders" -> SlotDef("Employee", <<>>, FALSE)
          [] F = "works_for"    -> SlotDef("Company", <<>>, FALSE)]]

\* The catalog of the schema, as cli/scan.py builds it before the scan, with
\* its lists in the order of NameOrder: the scan reads the catalog through
\* queries whose answers hold the same names whatever the order of the
\* catalog.
ScanReferences ==
  identify_references(ScanSchema, get_collection_name_to_class_names_map(ScanSchema).map,
                      NameOrdersOf(ScanSchema,
                                   get_collection_name_to_class_names_map(ScanSchema).map)).data

\* The class a collection is declared for, its type tag, its reference field.
TypeOfCollection(c) ==
  CASE c = "company_set" -> "refscan:Company"
    [] c = "employee_set" -> "refscan:Employee"
    [] c = "startup_set" -> "refscan:Startup"

FieldOfCollection(c) == IF c = "employee_set" THEN "works_for" ELSE "shareholders"

Scalar(id) == [is_list |-> FALSE, item |-> id]

List(ids) == [is_list |-> TRUE, items |-> ids]

\* The kinds of document a collection can hold, one of each at most.
DocKinds == <<"target", "linked", "anonymous", "oddid", "untyped", "oddtype", "ghost">>

\* The document of a kind in collection c.  "x" is the only id a document
\* carries: a reference to "y" dangles in every store.
ScanDoc(c, kind) ==
  LET key == "_id" :> <<c, kind>>
      id == "id" :> "x"
      type == "type" :> TypeOfCollection(c)
      F == FieldOfCollection(c)
  IN  CASE kind = "target"    -> key @@ id @@ type
        [] kind = "linked"    -> key @@ id @@ type @@ (F :> Scalar("x"))
        [] kind = "anonymous" -> key @@ type @@ (F :> List(<<"x", "x">>))
        [] kind = "oddid"     -> key @@ ("id" :> NonStr) @@ type @@ (F :> List(<<"x", "y">>))
        [] kind = "untyped"   -> key @@ id @@ (F :> Scalar("y"))
        [] kind = "oddtype"   -> key @@ id @@ ("type" :> NonStr) @@ (F :> Scalar("y"))
        [] kind = "ghost"     -> key @@ id @@ ("type" :> "refscan:Ghost") @@ (F :> Scalar("x"))

\* The subsets of S of at most n elements.
RECURSIVE SubsetsUpTo(_, _)
SubsetsUpTo(S, n) ==
  IF n = 0 THEN {{}}
  ELSE LET smaller == SubsetsUpTo(S, n - 1)
       IN  smaller \cup {p[1] \cup {p[2]} : p \in smaller \X S}

\* The stores of at most MaxScanDocs documents.  A collection without
\* documents is in the store, empty, or, when lacking, the store has no such
\* collection.
ScanStores ==
  {[c \in {n \in ScanCollNames : ~lacking \/ \E kind \in Range(DocKinds) : <<n, kind>> \in placed} |->
      LET kinds == SelectSeq(DocKinds, LAMBDA kind : <<c, kind>> \in placed)
      IN  [k \in 1..Len(kinds) |-> ScanDoc(c, kinds[k])]] :
   placed \in SubsetsUpTo(ScanCollNames \X Range(DocKinds), MaxScanDocs), lacking \in BOOLEAN}

SkipLists == {<<>>, <<"employee_set">>}

\* Of the orders of HashOrders that give the scan of documents of the classes
\* the same lists of legal and of other collections for each reference field
\* of each class, one: the scan reads nothing else of the order.
ScanOrdersOf(sv, refs, classes) ==
  LET by_class == get_reference_field_names_by_source_class_name(refs)
      fields(K) == IF K \in DOMAIN by_class THEN by_class[K] ELSE {}
      lists(o) == [K \in classes |->
                     [F \in fields(K) |->
                        <<ListOfSet(get_target_collection_names(refs, K, F), o),
                          ListOfSet(get_collection_names_from_schema(sv)
                                      \ get_target_collection_names(refs, K, F), o)>>]]
  IN  {CHOOSE o2 \in HashOrders : lists(o2) = lists(o) : o \in HashOrders}

\* These orders for a document of each class of the scanned schema, and of no
\* class; and for documents of all its classes.
ScanOrdersByClass ==
  [K \in all_classes(ScanSchema) \cup {None} |-> ScanOrdersOf(ScanSchema, ScanReferences, {K})]

ScanOrders == ScanOrdersOf(ScanSchema, ScanReferences, all_classes(ScanSchema))

InitScan ==
  /\ db \in ScanStores
  /\ txn = NoTxn
  /\ InitFinder
  /\ call = [op |-> "init"]
  /\ schema_view = ScanSchema
  /\ references = [built |-> TRUE, raised |-> FALSE, data |-> ScanReferences]
  /\ files = NoFiles
  /\ other_finder = NoOtherFinder

\* A caller makes a Finder and calls scan_outgoing_references on a document.
ScanOutgoingReferences ==
  /\ call.op = "init"
  /\ \E c \in ScanCollNames, kind \in Range(DocKinds), locate \in BOOLEAN, ord \in ScanOrders :
       LET r == scan_outgoing_references(
                  ScanDoc(c, kind), ScanArgs(schema_view, references.data, c, FALSE, locate, ord),
                  <<>>, <<>>)
       IN  /\ call' = [op |-> "scan_outgoing_references", document |-> ScanDoc(c, kind),
                       locate |-> locate, raised |-> r.raised, violations |-> r.violations,
                       violation_kwargs |-> r.violation_kwargs]
           /\ cached_collection_names_where_recently_found' = r.queue
           /\ cached_id_presence_by_collection' = r.cache
  /\ UNCHANGED <<db, txn, schema_view, references, files, other_finder>>

\* A caller calls identify_referring_documents on a document.
IdentifyReferringDocuments ==
  /\ call.op = "init"
  /\ \E c \in ScanCollNames, kind \in Range(DocKinds), ord \in HashOrders :
       LET r == identify_referring_documents(
                  ScanDoc(c, kind), schema_view, references.data, FALSE, ord)
       IN  call' = [op |-> "identify_referring_documents", document |-> ScanDoc(c, kind),
                    raised |-> r.raised, descriptors |-> r.descriptors]
  /\ UNCHANGED <<db, txn, cached_collection_names_where_recently_found,
                 cached_id_presence_by_collection, schema_view, references, files, other_finder>>

\* A slip in scan: the documents that were read are removed from the store.
ScanConsumingDocuments ==
  /\ call.op = "init"
  /\ \E skip \in SkipLists, locate \in BOOLEAN, ord \in ScanOrders :
       LET r == scan(schema_view, references.data, skip, locate, ord)
       IN  call' = [op |-> "scan", skip |-> skip, locate |-> locate,
                    raised |-> r.raised, result |-> r.result, queried |-> r.queried]
  /\ db' = [c \in DOMAIN db |-> <<>>]
  /\ UNCHANGED <<txn, cached_collection_names_where_recently_found,
                 cached_id_presence_by_collection, schema_view, references, files, other_finder>>

\* A run of scan of scanner.py.
Scan ==
  /\ call.op = "init"
  /\ \E skip \in SkipLists, locate \in BOOLEAN, ord \in ScanOrders :
       LET r == scan(schema_view, references.data, skip, locate, ord)
       IN  call' = [op |-> "scan", skip |-> skip, locate |-> locate,
                    raised |-> r.raised, result |-> r.result, queried |-> r.queried]
  /\ UNCHANGED <<db, txn, cached_collection_names_where_recently_found,
                 cached_id_presence_by_collection, schema_view, references, files, other_finder>>

\* The modules of the commands begin with "from refscan import
\* get_package_metadata" (refscan.py:24, cli/scan.py:19, grapher.py:9,
\* refgraph.py:12).  refscan/__init__.py defines get_package_version,
\* app_name and app_version, and no get_package_metadata: with this __init__
\* the import raises ImportError and the command does nothing more.  A run is
\* also taken on a package whose __init__ defines the function; it then
\* returns the field of the metadata of the installed package.
PackageInits == {"without_get_package_metadata", "with_get_package_metadata"}

import_get_package_metadata(package_init) ==
  IF package_init = "with_get_package_metadata" THEN None ELSE "ImportError"

get_package_metadata(field_name) == <<"refscan", field_name>>

\* refscan.py:166-207: the command builds its catalog itself, with the loops
\* of identify_references, from a map it fills in the order of
\* sorted(collection_names); the class lists and the effective ranges come
\* in hash order.  The names of the model are lowercase: sorted and sorted
\* by lowercase key agree on them.
RefscanOrdersOf(sv, map) ==
  {[o EXCEPT !.collections = SortedByLowercase] : o \in HashOrdersOf(sv, map)}

refscan_references(sv, ord) ==
  identify_references(sv, get_collection_name_to_class_names_map(sv).map, ord)

\* refscan.py:394-419: the violations of all the collections, by lowercase
\* collection name, as the violation report holds them.
refscan_violation_report(result) ==
  LET names == ListOfSet(DOMAIN result, SortedByLowercase)
  IN  dump_to_tsv_file(Concat([i \in 1..Len(names) |-> result[names[i]]]), TRUE)

\* A run of the scan command of refscan.py.  Its import can raise.  It
\* builds the catalog and writes the reference report; with --no-scan it exits there.  It then
\* connects (connect_to_database raises without a server address or without
\* the database), scans, closes the client and writes the violation report.
\* What the scan raises ends the run: the client stays open and no violation
\* report is written.
RefscanScan ==
  /\ call.op = "init"
  /\ \E skip \in SkipLists, locate \in BOOLEAN, package_init \in PackageInits :
       IF import_get_package_metadata(package_init) # None
       THEN /\ call' = [op |-> "refscan_import", skip |-> skip, locate |-> locate,
                        raised |-> import_get_package_metadata(package_init),
                        client |-> "none"]
            /\ files' = files
       ELSE \E user_wants_to_skip_scan \in BOOLEAN,
               catalog_ord \in RefscanOrdersOf(
                                 schema_view,
                                 get_collection_name_to_class_names_map(schema_view).map) :
            \E refs \in {refscan_references(schema_view, catalog_ord).data} :
            \E report \in {"references.tsv" :> reference_report(refs)} :
              IF user_wants_to_skip_scan
              THEN /\ call' = [op |-> "refscan_exit", skip |-> skip, locate |-> locate,
                               raised |-> None, client |-> "none"]
                   /\ files' = report @@ files
              ELSE \E server \in ServerStates :
                   IF server # "connected"
                   THEN /\ call' = [op |-> "refscan_connect", skip |-> skip,
                                    locate |-> locate, raised |-> "ValueError",
                                    client |-> "open"]
                        /\ files' = report @@ files
                   ELSE \E ord \in ScanOrders :
                        \E r \in {refscan_scan(schema_view, refs, skip, locate, ord)} :
                          /\ call' = [op |-> "refscan_scan", skip |-> skip,
                                      locate |-> locate, raised |-> r.raised,
                                      result |-> r.result,
                                      client |-> IF r.raised = None THEN "closed"
                                                 ELSE "open"]
                          /\ files' =
                               IF r.raised = None
                               THEN ("violations.tsv" :> refscan_violation_report(r.result))
                                      @@ report @@ files
                               ELSE report @@ files
  /\ UNCHANGED <<db, txn, cached_collection_names_where_recently_found,
                 cached_id_presence_by_collection, schema_view, references, other_finder>>

NextScan == ScanOutgoingReferences \/ IdentifyReferringDocuments \/ Scan \/ RefscanScan

SpecScan == InitScan /\ [][NextScan]_vars

\* C13: no operation of the Finder or of the scan engine changes the store:
\* every collection holds the same documents after the operation as before,
\* and no write is left pending.
C13_StoreNeverWritten == [][db' = db /\ txn' = txn]_vars

C13_Witness ==
  /\ call.op \in {"scan", "scan_outgoing_references", "identify_referring_documents"}
  /\ \E c \in DOMAIN db : Len(db[c]) = MaxScanDocs

\* Document d of collection C refers to the target: the catalog has a
\* Reference from C, a class K and a field F to the target's class, d is
\* typed as K, and field F of d is the target's id or a list that holds it.
RefersTo(C, d, target_class_name, target_id) ==
  \E i \in 1..Len(references.data) :
    LET r == references.data[i]
    IN  /\ r.source_collection_name = C
        /\ r.target_class_name = target_class_name
        /\ "type" \in DOMAIN d
        /\ d["type"] = schema_view.classes[r.source_class_name].class_uri
        /\ r.source_field_name \in DOMAIN d
        /\ IF d[r.source_field_name].is_list
           THEN \E k \in 1..Len(d[r.source_field_name].items) :
                  d[r.source_field_name].items[k] = target_id
           ELSE d[r.source_field_name].item = target_id

\* C17: for a target document with an id and a class, the descriptors
\* returned by identify_referring_documents are, one for one, the documents
\* of the store that refer to it; for a target without an id the list is
\* empty.
C17_DescriptorsAreTheReferringDocuments ==
  call.op = "identify_referring_documents" =>
    /\ "id" \notin DOMAIN call.document =>
         call.raised = None /\ call.descriptors = <<>>
    /\ \A T \in all_classes(schema_view) :
         (/\ "id" \in DOMAIN call.document
          /\ "type" \in DOMAIN call.document
          /\ call.document["type"] = schema_view.classes[T].class_uri)
           => /\ call.raised = None
              /\ \A i, j \in 1..Len(call.descriptors) :
                   (/\ call.descriptors[i].source_collection_name =
                         call.descriptors[j].source_collection_name
                    /\ call.descriptors[i].source_document_object_id =
                         call.descriptors[j].source_document_object_id) => i = j
              /\ {<<call.descriptors[i].source_collection_name,
                     call.descriptors[i].source_document_object_id>> :
                     i \in 1..Len(call.descriptors)}
                   = {p \in UNION {{<<C, db[C][k]["_id"]>> : k \in 1..Len(db[C])} : C \in DOMAIN db} :
                        \E k \in 1..Len(db[p[1]]) :
                          /\ db[p[1]][k]["_id"] = p[2]
                          /\ RefersTo(p[1], db[p[1]][k], T, call.document["id"])}

\* A target with a document that refers to it through a list, next to a
\* document of another type that names the target too and is not returned.
C17_Witness ==
  /\ call.op = "identify_referring_documents"
  /\ call.raised = None
  /\ Len(call.descriptors) = 1
  /\ \E C \in DOMAIN db :
       /\ \E k \in 1..Len(db[C]) :
            /\ "type" \in DOMAIN db[C][k]
            /\ db[C][k]["type"] = "refscan:Ghost"
            /\ FieldOfCollection(C) \in DOMAIN db[C][k]
            /\ ~db[C][k][FieldOfCollection(C)].is_list
            /\ db[C][k][FieldOfCollection(C)].item = call.document["id"]
       /\ \E k \in 1..Len(db[C]) :
            /\ db[C][k]["_id"] = call.descriptors[1].source_document_object_id
            /\ FieldOfCollection(C) \in DOMAIN db[C][k]
            /\ db[C][k][FieldOfCollection(C)].is_list

\* The classes whose type tag the document declares: none when the document
\* has no type, or a type that is no string or no class of the schema.
DeclaredClasses(sv, document) ==
  {K \in all_classes(sv) :
     "type" \in DOMAIN document /\ sv.classes[K].class_uri = document["type"]}

\* The References the scanned schema allows; and those a schema allows, the
\* ones of the scanned schema being worked out once.
ScanAllowedReferences == UNION {{r} : r \in AllowedReferences(ScanSchema)}

AllowedReferencesOf(sv) == IF sv = ScanSchema THEN ScanAllowedReferences ELSE AllowedReferences(sv)

\* The reference fields of class K that the document carries.
ReferenceFieldsOn(sv, K, document) ==
  {r.source_field_name : r \in {a \in AllowedReferencesOf(sv) : a.source_class_name = K}}
    \cap DOMAIN document

\* The collections the schema allows to hold the target of field F of class K.
LegalCollections(sv, K, F) ==
  {r.target_collection_name :
     r \in {a \in AllowedReferencesOf(sv) : a.source_class_name = K /\ a.source_field_name = F}}

\* The collections among cs that hold a document with the id.
HoldersAmong(cs, id) == {c \in cs \cap DOMAIN db : id \in IdsIn(db[c])}

\* The ids a reference field of a scanned document can name.
TargetIds == {"x", "y"}

\* The document has no id that is a string.
LacksStringId(document) == "id" \notin DOMAIN document \/ document["id"] = NonStr

\* The documents a scan run fetches: those of the source collections it
\* does not skip that carry a reference field of their collection.
ScannedDocuments(skip) ==
  UNION {{db[c][k] : k \in {j \in 1..Len(db[c]) :
                              \E r \in AllowedReferences(schema_view) :
                                /\ r.source_collection_name = c
                                /\ r.source_field_name \in DOMAIN db[c][j]}} :
         c \in DOMAIN db \ Range(skip)}

\* C18: a source collection that the catalog names and the store lacks is
\* skipped by scan: no count and no read is issued against it, the returned
\* dictionary has no entry for it, and the other collections are scanned.
C18_AbsentCollectionSkipped ==
  (call.op = "scan" /\ call.raised = None) =>
    \A c \in get_source_collection_names(references.data) :
      IF c \in DOMAIN db
      THEN InSeq(call.skip, c) \/ c \in DOMAIN call.result
      ELSE c \notin DOMAIN call.result /\ ~InSeq(call.queried, c)

\* What the Violations of collection c should be: for each document in the
\* order it is read, and each id one of its reference fields names that no
\* legal target collection holds, the document, the field and the id.
ExpectedViolationKeys(c) ==
  Concat([k \in 1..Len(db[c]) |->
    LET d == db[c][k]
        K == CHOOSE class_name \in DeclaredClasses(schema_view, d) : TRUE
        field_names == ListOfSet(ReferenceFieldsOn(schema_view, K, d), NameOrder)
    IN  IF DeclaredClasses(schema_view, d) = {} THEN <<>>
        ELSE Concat([f \in 1..Len(field_names) |->
               LET dangling == SelectSeq(target_ids_of(d[field_names[f]]),
                                 LAMBDA t : HoldersAmong(LegalCollections(schema_view, K, field_names[f]), t) = {})
               IN  [j \in 1..Len(dangling) |-> <<d["_id"], field_names[f], dangling[j]>>]])])

\* C19: a scan of documents whose classes can be derived returns a
\* dictionary in which no collection of the skip list has an entry, and none
\* of these was read; every other source collection of the catalog that is
\* in the store has an entry, which holds the Violations of its documents in
\* the order the documents were read, and is there even when it is empty.
C19_EntriesOfScannedCollections ==
  (/\ call.op = "scan"
   /\ \A d \in ScannedDocuments(call.skip) : DeclaredClasses(schema_view, d) # {}) =>
    /\ call.raised = None
    /\ \A c \in Range(call.skip) : c \notin DOMAIN call.result /\ ~InSeq(call.queried, c)
    /\ \A c \in (get_source_collection_names(references.data) \cap DOMAIN db) \ Range(call.skip) :
         /\ c \in DOMAIN call.result
         /\ [k \in 1..Len(call.result[c]) |->
               <<call.result[c][k].source_document_object_id,
                 call.result[c][k].source_field_name,
                 call.result[c][k].target_id>>] = ExpectedViolationKeys(c)

\* The fields of a Violation as the specification lists them.
SevenViolationFields ==
  {"source_collection_name", "source_class_name", "source_field_name",
   "source_document_object_id", "source_document_id", "target_id",
   "name_of_collection_containing_target"}

\* C26: scan_outgoing_references on a document whose class can be derived
\* never fails to emit a Violation, and every Violation it returns has the
\* seven fields, with the class derived from the document's type as
\* source_class_name and the caller's collection as source_collection_name.
C26_ViolationHasSevenFields ==
  (call.op = "scan_outgoing_references" /\ DeclaredClasses(schema_view, call.document) # {}) =>
    /\ call.raised = None
    /\ \A k \in 1..Len(call.violations) :
         /\ DOMAIN call.violations[k] = SevenViolationFields
         /\ call.violations[k].source_class_name \in DeclaredClasses(schema_view, call.document)
         /\ call.violations[k].source_collection_name = call.document["_id"][1]

\* C28: in every Violation scan_outgoing_references produces (those it
\* returns, and the one it is building when the call ends there, by the
\* keyword arguments it is built from), name_of_collection_containing_target
\* is not a collection the schema allows as a target of the document's class
\* and the Violation's field, and is None when the option to locate
\* misplaced documents is off.
C28_ContainingCollectionIsNeverLegal ==
  call.op = "scan_outgoing_references" =>
    \A v \in Range(call.violations) \cup Range(call.violation_kwargs) :
      /\ \A K \in DeclaredClasses(schema_view, call.document) :
           v.name_of_collection_containing_target
             \notin LegalCollections(schema_view, K, v.source_field_name)
      /\ ~call.locate => v.name_of_collection_containing_target = None

\* A Violation is built for a reference whose target was located in a
\* collection that is not a legal one.
C28_Witness ==
  /\ call.op = "scan_outgoing_references"
  /\ call.locate
  /\ \E v \in Range(call.violations) \cup Range(call.violation_kwargs) :
       /\ v.name_of_collection_containing_target # None
       /\ v.name_of_collection_containing_target \in DOMAIN db

\* C2: scan_outgoing_references returns exactly one Violation for each
\* occurrence of a target id, in a reference field of the document's class,
\* that no legal target collection holds, and none for an occurrence whose id
\* a legal target collection holds; the Violation carries the field and the id.
C2_OneViolationPerDanglingOccurrence ==
  (call.op = "scan_outgoing_references" /\ DeclaredClasses(schema_view, call.document) # {}) =>
    /\ call.raised = None
    /\ \A K \in DeclaredClasses(schema_view, call.document) :
         \A F \in ReferenceFieldsOn(schema_view, K, call.document) : \A t \in TargetIds :
           Cardinality({k \in 1..Len(call.violations) :
                          /\ call.violations[k].source_field_name = F
                          /\ call.violations[k].target_id = t})
             = IF HoldersAmong(LegalCollections(schema_view, K, F), t) = {}
               THEN Cardinality({j \in 1..Len(target_ids_of(call.document[F])) :
                                   target_ids_of(call.document[F])[j] = t})
               ELSE 0

\* C3: with the option to locate misplaced documents on, the Violation for a
\* target id that no legal collection holds names a collection of the schema,
\* not legal for the field, that holds the id; it names None only when no
\* collection of the schema holds the id.
C3_MisplacedTargetIsLocated ==
  (call.op = "scan_outgoing_references" /\ call.locate) =>
    \A K \in DeclaredClasses(schema_view, call.document) :
      \A F \in ReferenceFieldsOn(schema_view, K, call.document) :
        \A t \in Range(target_ids_of(call.document[F])) :
          LET legal == LegalCollections(schema_view, K, F)
              misplaced == HoldersAmong(CollectionsOf(schema_view) \ legal, t)
          IN  HoldersAmong(legal, t) = {} =>
                \E k \in 1..Len(call.violations) :
                  /\ call.violations[k].source_field_name = F
                  /\ call.violations[k].target_id = t
                  /\ IF misplaced = {}
                     THEN call.violations[k].name_of_collection_containing_target = None
                     ELSE call.violations[k].name_of_collection_containing_target \in misplaced

\* C8: a source document whose class cannot be derived from its type makes
\* the processing raise: the call on the document raises, and a scan that
\* fetches such a document returns no result.
C8_UnderivableClassAbortsScan ==
  /\ (call.op = "scan_outgoing_references" /\ DeclaredClasses(schema_view, call.document) = {})
       => call.raised # None
  /\ (/\ call.op \in {"scan", "refscan_scan"}
      /\ \E d \in ScannedDocuments(call.skip) : DeclaredClasses(schema_view, d) = {})
       => call.raised # None

\* C10: a referring document without an id that is a string never makes the
\* scan fail, and every Violation emitted for it, and every descriptor that
\* identify_referring_documents returns for it, has source_document_id "".
C10_MissingIdReportedAsEmpty ==
  /\ (/\ call.op = "scan_outgoing_references"
      /\ DeclaredClasses(schema_view, call.document) # {}
      /\ LacksStringId(call.document))
       => /\ call.raised = None
          /\ \A k \in 1..Len(call.violations) : call.violations[k].source_document_id = ""
  /\ (/\ call.op \in {"scan", "refscan_scan"}
      /\ \A d \in ScannedDocuments(call.skip) : DeclaredClasses(schema_view, d) # {})
       => /\ call.raised = None
          /\ \A c \in DOMAIN call.result : \A k \in 1..Len(call.result[c]) :
               LET v == call.result[c][k]
               IN  LacksStringId(ScanDoc(v.source_document_object_id[1],
                                         v.source_document_object_id[2]))
                     => v.source_document_id = ""
  /\ (call.op = "identify_referring_documents" /\ call.raised = None)
       => \A k \in 1..Len(call.descriptors) :
            LET v == call.descriptors[k]
            IN  LacksStringId(ScanDoc(v.source_document_object_id[1],
                                      v.source_document_object_id[2]))
                  => v.source_document_id = ""

(***************************************************************************)
(* A Finder kept in use while another process writes to the store: the     *)
(* caller looks ids up and scans documents on one Finder, and between two  *)
(* of these another process inserts a document.                            *)
(***************************************************************************)
MaxStaleSteps == 3
MaxStaleDocs == 1

\* The stores at the start: every collection is there, and at most
\* MaxStaleDocs documents in all.
StaleStores ==
  {[c \in ScanCollNames |->
      LET kinds == SelectSeq(DocKinds, LAMBDA kind : <<c, kind>> \in placed)
      IN  [k \in 1..Len(kinds) |-> ScanDoc(c, kinds[k])]] :
   placed \in SubsetsUpTo(ScanCollNames \X Range(DocKinds), MaxStaleDocs)}

\* The documents the caller scans: those with a class and a reference field.
StaleScannedKinds == {"linked", "anonymous", "oddid"}

InitStale ==
  /\ db \in StaleStores
  /\ txn = NoTxn
  /\ InitFinder
  /\ call = [op |-> "init", step |-> 0]
  /\ schema_view = ScanSchema
  /\ references = [built |-> TRUE, raised |-> FALSE, data |-> ScanReferences]
  /\ files = NoFiles
  /\ other_finder = NoOtherFinder

\* The scan of a document between two of its queries of the store: a call
\* of scan_outgoing_references (ctx.loop "scanner"), or the body of the loop
\* of the scan command of refscan.py over the documents (ctx.loop
\* "refscan"), which builds its Violation from six keyword arguments and
\* from the id as the document has it.  The scan asks the store once for
\* each collection it visits whose answer the presence cache does not hold
\* (Finder.py:167-168), and another process can write between two of these
\* queries.  s is where the scan is: the
\* occurrence k it works on, the lookup it is in (phase: "start" before the
\* lookup among the legal collections, "legal" in it, "other" in the one
\* among the other collections), the optimized order of that lookup and the
\* position j in it, the violations so far and the Finder's caches.  answer
\* is the store's answer about the collection at j, <<>> when the store has
\* not been asked.  The call runs on until it has to ask the store
\* (pc "find_one") or ends (pc "returned").
RECURSIVE scan_outgoing_run(_, _, _)
scan_outgoing_run(ctx, s, answer) ==
  IF s.k > Len(ctx.occurrences)
  THEN [s EXCEPT !.pc = "returned", !.raised = None]
  ELSE
    LET field_name == ctx.occurrences[s.k].field_name
        target_id == ctx.occurrences[s.k].target_id
        target_collection_names ==
          ListOfSet(get_target_collection_names(ctx.args.references, ctx.source_class_name,
                                                field_name),
                    ctx.args.ord)
        names_of_ineligible_collections ==
          ListOfSet(get_collection_names_from_schema(ctx.args.schema_view)
                      \ Range(target_collection_names), ctx.args.ord)
        source_document_id == IF "id" \in DOMAIN ctx.document /\ IsStr(ctx.document["id"])
                              THEN ctx.document["id"] ELSE ""
        kwargs(result) ==
          IF ctx.loop = "refscan"
          THEN [source_collection_name |-> ctx.args.source_collection_name,
                source_field_name |-> field_name,
                source_document_object_id |-> ctx.document["_id"],
                source_document_id |-> IF "id" \in DOMAIN ctx.document
                                       THEN ctx.document["id"] ELSE None,
                target_id |-> target_id,
                name_of_collection_containing_target |-> result]
          ELSE [source_collection_name |-> ctx.args.source_collection_name,
                source_class_name |-> ctx.source_class_name,
                source_field_name |-> field_name,
                source_document_object_id |-> ctx.document["_id"],
                source_document_id |-> source_document_id,
                target_id |-> target_id,
                name_of_collection_containing_target |-> result]
        violation(result) == Violation(kwargs(result))
        \* The lookup of the phase has returned result.
        returned_from_lookup(s2, result) ==
          IF s2.phase = "legal" /\ result # None
          THEN scan_outgoing_run(ctx, [s2 EXCEPT !.k = @ + 1, !.phase = "start"], <<>>)
          ELSE IF s2.phase = "legal" /\ ctx.args.user_wants_to_locate_misplaced_documents
          THEN scan_outgoing_run(
                 ctx,
                 [s2 EXCEPT !.phase = "other", !.j = 1,
                            !.ordered = optimize_collection_search_order(
                                          s2.queue, names_of_ineligible_collections)],
                 <<>>)
          ELSE IF violation(result).raised # None
          THEN [s2 EXCEPT !.pc = "returned", !.raised = violation(result).raised,
                          !.violations = <<>>, !.violation_kwargs = <<kwargs(result)>>]
          ELSE scan_outgoing_run(
                 ctx,
                 [s2 EXCEPT !.k = @ + 1, !.phase = "start",
                            !.violations = Append(@, violation(result).value)],
                 <<>>)
    IN  IF s.phase = "start"
        THEN scan_outgoing_run(
               ctx,
               [s EXCEPT !.phase = "legal", !.j = 1,
                         !.ordered = optimize_collection_search_order(
                                       s.queue, target_collection_names)],
               <<>>)
        ELSE IF s.j > Len(s.ordered)
        THEN returned_from_lookup(s, None)
        ELSE
          LET collection_name == s.ordered[s.j]
              is_id_present == get_cached_id_presence_in_collection(
                                 s.cache, collection_name, target_id)
          IN  IF is_id_present = <<FALSE>>
              THEN scan_outgoing_run(ctx, [s EXCEPT !.j = @ + 1], <<>>)
              ELSE IF is_id_present = <<TRUE>>
              THEN returned_from_lookup(
                     [s EXCEPT !.queue = set_name_of_collection_most_recently_found_in(
                                           @, collection_name)],
                     collection_name)
              ELSE IF answer = <<>>
              THEN [s EXCEPT !.pc = "find_one"]
              ELSE IF answer = <<TRUE>>
              THEN returned_from_lookup(
                     [s EXCEPT !.cache = set_cached_id_presence_in_collection(
                                           @, collection_name, target_id, TRUE),
                               !.queue = set_name_of_collection_most_recently_found_in(
                                           @, collection_name)],
                     collection_name)
              ELSE scan_outgoing_run(
                     ctx,
                     [s EXCEPT !.j = @ + 1,
                               !.cache = set_cached_id_presence_in_collection(
                                           @, collection_name, target_id, FALSE)],
                     <<>>)

\* What the scan of a document works on, from its arguments; and where it is
\* when it starts.  scan_outgoing_references raises on a document without a
\* class; the loop of refscan.py finds no reference field for it.
ScanContext(loop, document, args) ==
  LET source_class_name == derive_schema_class_name_from_document(args.schema_view, document)
  IN  [loop |-> loop, document |-> document, args |-> args,
       source_class_name |-> source_class_name,
       occurrences |-> occurrences_of(document,
                                      names_of_reference_fields_of(args, source_class_name))]

ScanStart(ctx, queue, cache) ==
  IF ctx.loop = "scanner" /\ ctx.source_class_name = None
  THEN [pc |-> "returned", raised |-> "ValueError", k |-> 1, phase |-> "start",
        ordered |-> <<>>, j |-> 1, violations |-> <<>>, violation_kwargs |-> <<>>,
        queue |-> queue, cache |-> cache]
  ELSE scan_outgoing_run(
         ctx,
         [pc |-> "running", raised |-> None, k |-> 1, phase |-> "start", ordered |-> <<>>,
          j |-> 1, violations |-> <<>>, violation_kwargs |-> <<>>,
          queue |-> queue, cache |-> cache],
         <<>>)

\* The scan of the caller as the state keeps it: ended, or waiting for the
\* store's answer about the collection s.ordered[s.j].
StaleCallOf(step, ctx, s) ==
  IF s.pc = "returned"
  THEN [op |-> IF ctx.loop = "scanner" THEN "scan_outgoing_references"
               ELSE "refscan_document",
        step |-> step, document |-> ctx.document,
        locate |-> ctx.args.user_wants_to_locate_misplaced_documents,
        raised |-> s.raised, violations |-> s.violations,
        violation_kwargs |-> s.violation_kwargs]
  ELSE [op |-> "find_one", loop |-> ctx.loop, step |-> step, document |-> ctx.document,
        source_collection_name |-> ctx.args.source_collection_name,
        locate |-> ctx.args.user_wants_to_locate_misplaced_documents,
        ord |-> ctx.args.ord, k |-> s.k, phase |-> s.phase, ordered |-> s.ordered,
        j |-> s.j, violations |-> s.violations]

\* Another process inserts a document with id "x" into a collection that has
\* none of that kind, between two operations of the caller or between two
\* queries of a scan of a document.
InsertByOther ==
  /\ call.step < MaxStaleSteps
  /\ \E c \in ScanCollNames :
       /\ \A k \in 1..Len(db[c]) : db[c][k] # ScanDoc(c, "target")
       /\ db' = [db EXCEPT ![c] = Append(@, ScanDoc(c, "target"))]
       /\ call' = IF call.op = "find_one"
                  THEN [call EXCEPT !.step = @ + 1]
                  ELSE [op |-> "insert_one", step |-> call.step + 1, collection_name |-> c]
  /\ UNCHANGED <<txn, cached_collection_names_where_recently_found,
                 cached_id_presence_by_collection, schema_view, references, files,
                 other_finder>>

\* The caller looks an id up in one collection, on the Finder it keeps.  The
\* call asks the store at most once.
StaleCheck ==
  /\ call.op # "find_one"
  /\ call.step < MaxStaleSteps
  /\ \E document_id \in Ids, c \in ScanCollNames :
       LET r == check_whether_document_having_id_exists_among_collections(
                  cached_collection_names_where_recently_found,
                  cached_id_presence_by_collection, document_id, <<c>>, FALSE)
       IN  /\ cached_collection_names_where_recently_found' = r.queue
           /\ cached_id_presence_by_collection' = r.cache
           /\ call' = [op |-> "check", step |-> call.step + 1,
                       document_id |-> document_id, collection_names |-> <<c>>,
                       result |-> r.result, queried |-> r.queried]
  /\ UNCHANGED <<db, txn, schema_view, references, files, other_finder>>

\* The caller calls scan_outgoing_references on a document, on the Finder it
\* keeps: the call runs to its first query of the store, or to its end.  The
\* Finder's caches keep what the lookups wrote even when the call raises.
StaleScanOutgoingReferences ==
  /\ call.op # "find_one"
  /\ call.step < MaxStaleSteps
  /\ \E c \in ScanCollNames, kind \in StaleScannedKinds, locate \in BOOLEAN :
     \E ord \in ScanOrdersByClass[derive_schema_class_name_from_document(
                                     schema_view, ScanDoc(c, kind))] :
       LET ctx == ScanContext("scanner", ScanDoc(c, kind),
                              ScanArgs(schema_view, references.data, c, FALSE, locate, ord))
           s == ScanStart(ctx, cached_collection_names_where_recently_found,
                          cached_id_presence_by_collection)
       IN  /\ call' = StaleCallOf(call.step + 1, ctx, s)
           /\ cached_collection_names_where_recently_found' = s.queue
           /\ cached_id_presence_by_collection' = s.cache
  /\ UNCHANGED <<db, txn, schema_view, references, files, other_finder>>

\* The scan command of refscan.py takes up a document it has fetched from a
\* source collection, on the Finder of its run: the body of its loop over
\* the documents runs to its first query of the store, or to its end.
StaleRefscanDocument ==
  /\ call.op # "find_one"
  /\ call.step < MaxStaleSteps
  /\ \E c \in ScanCollNames, kind \in StaleScannedKinds, locate \in BOOLEAN :
     \E ord \in ScanOrdersByClass[derive_schema_class_name_from_document(
                                     schema_view, ScanDoc(c, kind))] :
       LET ctx == ScanContext("refscan", ScanDoc(c, kind),
                              ScanArgs(schema_view, references.data, c, FALSE, locate, ord))
           s == ScanStart(ctx, cached_collection_names_where_recently_found,
                          cached_id_presence_by_collection)
       IN  /\ InSeq(db[c], ScanDoc(c, kind))
           /\ call' = StaleCallOf(call.step + 1, ctx, s)
           /\ cached_collection_names_where_recently_found' = s.queue
           /\ cached_id_presence_by_collection' = s.cache
  /\ UNCHANGED <<db, txn, schema_view, references, files, other_finder>>

\* The store answers the query the scan waits for, from what it holds now,
\* and the scan runs on to its next query or to its end.
StaleFindOne ==
  /\ call.op = "find_one"
  /\ LET ctx == ScanContext(call.loop, call.document,
                            ScanArgs(schema_view, references.data, call.source_collection_name,
                                     FALSE, call.locate, call.ord))
         s == scan_outgoing_run(
                ctx,
                [pc |-> "running", raised |-> None, k |-> call.k, phase |-> call.phase,
                 ordered |-> call.ordered, j |-> call.j, violations |-> call.violations,
                 violation_kwargs |-> <<>>,
                 queue |-> cached_collection_names_where_recently_found,
                 cache |-> cached_id_presence_by_collection],
                <<find_one(call.ordered[call.j], ctx.occurrences[call.k].target_id, FALSE)>>)
     IN  /\ call' = StaleCallOf(call.step, ctx, s)
         /\ cached_collection_names_where_recently_found' = s.queue
         /\ cached_id_presence_by_collection' = s.cache
  /\ UNCHANGED <<db, txn, schema_view, references, files, other_finder>>

NextStale ==
  \/ InsertByOther
  \/ StaleCheck
  \/ StaleScanOutgoingReferences
  \/ StaleRefscanDocument
  \/ StaleFindOne

SpecStale == InitStale /\ [][NextStale]_vars

\* The Finder holds a stale absence of the id for the collection: it has
\* recorded the id as absent, and the collection now holds it.
StaleAbsence(c, document_id) ==
  /\ HasEntry(cached_id_presence_by_collection, c, document_id)
  /\ ~cached_id_presence_by_collection[c][document_id]
  /\ document_id \in IdsIn(db[c])

\* C25: once the Finder has recorded an id as absent from a collection and
\* another process has then inserted a document with that id there, a
\* lookup of the id in that collection on the same Finder still returns
\* None, without asking the store; and a scan of a document that names the
\* id, for which those are the legal target collections, does not find it:
\* it records a Violation for it, or ends building one.
C25_StaleAbsenceReportedAsViolation ==
  /\ (call.op = "check" /\ StaleAbsence(call.collection_names[1], call.document_id))
       => call.result = None /\ call.queried = <<>>
  /\ call.op \in {"scan_outgoing_references", "refscan_document"} =>
       \A K \in DeclaredClasses(schema_view, call.document) :
         \A F \in ReferenceFieldsOn(schema_view, K, call.document) :
           \A t \in Range(target_ids_of(call.document[F])) :
             (\A c \in LegalCollections(schema_view, K, F) : StaleAbsence(c, t)) =>
               \/ \E k \in 1..Len(call.violations) :
                    /\ call.violations[k].source_field_name = F
                    /\ call.violations[k].target_id = t
               \/ /\ call.raised = "TypeError"
                  /\ call.violation_kwargs # <<>>

\* The scan command has recorded a Violation for an id that every legal
\* target collection now holds, from the absences its Finder had recorded.
C25_Witness ==
  /\ call.op = "refscan_document"
  /\ call.raised = None
  /\ \E k \in 1..Len(call.violations) :
       \A K \in DeclaredClasses(schema_view, call.document) :
         \A c \in LegalCollections(schema_view, K, call.violations[k].source_field_name) :
           StaleAbsence(c, call.violations[k].target_id)

\* A lookup has returned None from a stale absence.
StaleLookupReached ==
  call.op = "check" /\ StaleAbsence(call.collection_names[1], call.document_id)

(***************************************************************************)
(* lib/ViolationList.py: the violation report.  A file is its rows, the    *)
(* header row first; a row is the list of its cells.                       *)
(***************************************************************************)
\* The violations a report is made of.
ReportViolations ==
  {[source_collection_name |-> c,
    source_field_name |-> FieldOfCollection(c),
    source_document_object_id |-> <<c, "linked">>,
    source_document_id |-> id,
    target_id |-> "y",
    name_of_collection_containing_target |-> found] :
   c \in {"company_set", "employee_set"}, id \in {"x", ""}, found \in {None, "startup_set"}}

\* The lists of at most n violations.
RECURSIVE ViolationLists(_)
ViolationLists(n) ==
  IF n = 0 THEN {<<>>}
  ELSE LET shorter == ViolationLists(n - 1)
       IN  shorter \cup {Append(p[1], p[2]) : p \in shorter \X ReportViolations}

InitReport ==
  /\ files = NoFiles
  /\ other_finder = NoOtherFinder
  /\ db = NoStore
  /\ txn = NoTxn
  /\ InitFinder
  /\ call = [op |-> "init"]
  /\ schema_view = ScanSchema
  /\ references = [built |-> TRUE, raised |-> FALSE, data |-> ScanReferences]

\* A caller dumps a ViolationList to the violation report file.
DumpViolations ==
  /\ \E data \in ViolationLists(MaxViolations), include \in BOOLEAN :
       /\ files' = ("violations.tsv" :> dump_to_tsv_file(data, include))
                      @@ files
       /\ call' = [op |-> "dump_to_tsv_file", data |-> data,
                   include_name_of_collection_containing_target |-> include]
  /\ UNCHANGED <<db, txn, cached_collection_names_where_recently_found,
                 cached_id_presence_by_collection, schema_view, references, other_finder>>

NextReport == DumpViolations

SpecReport == InitReport /\ [][NextReport]_vars

\* C11: in the violation report the header row is the Violation field names
\* as declared (without the last one when it is left out), and every data row
\* has as many cells as the header, each the value of the field its column
\* is named after.
C11_RowsMatchHeader ==
  call.op = "dump_to_tsv_file" =>
    LET rows == files["violations.tsv"]
        header == IF call.include_name_of_collection_containing_target
                  THEN ViolationFieldOrder
                  ELSE SubSeq(ViolationFieldOrder, 1, Len(ViolationFieldOrder) - 1)
    IN  /\ rows[1] = header
        /\ Len(rows) = Len(call.data) + 1
        /\ \A k \in 1..Len(call.data) :
             /\ Len(rows[k + 1]) = Len(header)
             /\ \A i \in 1..Len(header) :
                  LET value == call.data[k][header[i]]
                  IN  IF header[i] = "source_document_object_id"
                      THEN rows[k + 1][i] = value
                      ELSE rows[k + 1][i] = (IF value = None THEN "" ELSE value)

(***************************************************************************)
(* cli/scan.py: the scan command, step by step.  call holds where the      *)
(* command is (pc), its options, and whether it has contacted the          *)
(* database server.                                                        *)
(***************************************************************************)
InitCommand ==
  /\ db \in ScanStores
  /\ txn = NoTxn
  /\ InitFinder
  /\ call = [op |-> "init"]
  /\ schema_view = ScanSchema
  /\ references = NoReferences
  /\ files = NoFiles
  /\ other_finder = NoOtherFinder

\* Lines 19 and 128-164: the import of the module can raise; the catalog is
\* built and the reference report written; the command exits here when the
\* user opted to skip the scan.
CommandWriteReferenceReport ==
  /\ call.op = "init"
  /\ \E skip \in SkipLists, locate \in BOOLEAN, user_wants_to_skip_scan \in BOOLEAN,
        package_init \in PackageInits,
        ord \in HashOrdersOf(schema_view,
                             get_collection_name_to_class_names_map(schema_view).map) :
       LET m == get_collection_name_to_class_names_map(schema_view)
           r == identify_references(schema_view, m.map, ord)
       IN  IF import_get_package_metadata(package_init) # None
           THEN /\ references' = references
                /\ files' = files
                /\ call' = [op |-> "command", pc |-> "failed", skip |-> skip,
                            locate |-> locate, db_contacted |-> FALSE,
                            raised |-> import_get_package_metadata(package_init),
                            result |-> <<>>]
           ELSE /\ references' = [built |-> TRUE, raised |-> FALSE, data |-> r.data]
                /\ files' = ("references.tsv" :> reference_report(r.data)) @@ files
                /\ call' = [op |-> "command",
                            pc |-> IF user_wants_to_skip_scan THEN "exited"
                                   ELSE "report_written",
                            skip |-> skip, locate |-> locate,
                            db_contacted |-> FALSE, raised |-> None, result |-> <<>>]
  /\ UNCHANGED <<db, txn, cached_collection_names_where_recently_found,
                 cached_id_presence_by_collection, schema_view, other_finder>>

\* Lines 166-168: connect_to_database returns a client, or raises.
CommandConnect ==
  /\ call.op = "command" /\ call.pc = "report_written"
  /\ \E server \in ServerStates :
       call' = [call EXCEPT !.db_contacted = TRUE,
                            !.pc = IF server = "connected" THEN "connected" ELSE "failed",
                            !.raised = IF server = "connected" THEN None ELSE "ValueError"]
  /\ UNCHANGED <<db, txn, cached_collection_names_where_recently_found,
                 cached_id_presence_by_collection, schema_view, references, files, other_finder>>

\* A slip in the command: the violations found so far are written when the
\* scan raises.
CommandScanLeavingPartialReport ==
  /\ call.op = "command" /\ call.pc = "connected"
  /\ \E ord \in ScanOrders :
       LET r == scan(schema_view, references.data, call.skip, call.locate, ord)
       IN  /\ call' = [call EXCEPT !.pc = IF r.raised = None THEN "scanned" ELSE "failed",
                                    !.raised = r.raised, !.result = r.result]
           /\ files' = IF r.raised = None THEN files
                       ELSE ("violations.tsv" :> dump_to_tsv_file(<<>>, TRUE)) @@ files
  /\ UNCHANGED <<db, txn, cached_collection_names_where_recently_found,
                 cached_id_presence_by_collection, schema_view, references, other_finder>>

\* Lines 170-179: the scan; what it raises ends the command.
CommandScan ==
  /\ call.op = "command" /\ call.pc = "connected"
  /\ \E ord \in ScanOrders :
       LET r == scan(schema_view, references.data, call.skip, call.locate, ord)
       IN  call' = [call EXCEPT !.pc = IF r.raised = None THEN "scanned" ELSE "failed",
                                !.raised = r.raised, !.result = r.result]
  /\ UNCHANGED <<db, txn, cached_collection_names_where_recently_found,
                 cached_id_presence_by_collection, schema_view, references, files, other_finder>>

\* Lines 181-211: the violations of all collections, sorted by the lowercase
\* collection name, are written to the violation report.
CommandWriteViolationReport ==
  /\ call.op = "command" /\ call.pc = "scanned"
  /\ LET names == ListOfSet(DOMAIN call.result, SortedByLowercase)
         all_violations == Concat([i \in 1..Len(names) |-> call.result[names[i]]])
     IN  files' = ("violations.tsv" :> dump_to_tsv_file(all_violations, TRUE)) @@ files
  /\ call' = [call EXCEPT !.pc = "done"]
  /\ UNCHANGED <<db, txn, cached_collection_names_where_recently_found,
                 cached_id_presence_by_collection, schema_view, references, other_finder>>

(***************************************************************************)
(* cli/graph.py and grapher.py: the graph command.  It reads the schema,   *)
(* builds the catalog and writes the graph file; it contacts no database.  *)
(* The file is the template (templates/graph.template.html, not part of    *)
(* the source at hand) with two values put in: the elements of the graph   *)
(* and its metadata.  The model keeps the two values.                      *)
(***************************************************************************)
Subjects == {"collection", "class"}

\* schema_view.schema.version, which the command copies into the metadata.
schema_version(sv) == IF "version" \in DOMAIN sv THEN sv.version ELSE None

\* is_class_abstract: the abstract property of a class can be True, False
\* or None.
is_class_abstract(class_name, sv) ==
  /\ "abstract" \in DOMAIN sv.classes[class_name]
  /\ sv.classes[class_name].abstract = TRUE

\* ", ".join(source_fields)
RECURSIVE join_with_comma(_)
join_with_comma(source_fields) ==
  IF source_fields = <<>> THEN ""
  ELSE IF Len(source_fields) = 1 THEN source_fields[1]
  ELSE source_fields[1] \o ", " \o join_with_comma(Tail(source_fields))

\* The loop of graph over the references, from the k-th on: a node for each
\* source and target not yet among the nodes when the reference is taken up,
\* an edge for each pair of source and target, with the names of the fields.
RECURSIVE graph_loop(_, _, _, _, _, _)
graph_loop(refs, k, subject, sv, nodes, edges) ==
  IF k > Len(refs) THEN [nodes |-> nodes, edges |-> edges]
  ELSE LET r == refs[k]
           source_name == IF subject = "collection" THEN r.source_collection_name
                          ELSE r.source_class_name
           target_name == IF subject = "collection" THEN r.target_collection_name
                          ELSE r.target_class_name
           is_source_abstract == IF subject = "class" THEN is_class_abstract(source_name, sv)
                                 ELSE None
           is_target_abstract == IF subject = "class" THEN is_class_abstract(target_name, sv)
                                 ELSE None
           node_ids == [i \in 1..Len(nodes) |-> nodes[i].id]
           with_source == IF ~InSeq(node_ids, source_name)
                          THEN Append(nodes, [id |-> source_name,
                                              is_abstract |-> is_source_abstract])
                          ELSE nodes
           with_target == IF ~InSeq(node_ids, target_name)
                          THEN Append(with_source, [id |-> target_name,
                                                    is_abstract |-> is_target_abstract])
                          ELSE with_source
           edge_id == source_name \o "__to__" \o target_name
           with_edge == IF \E i \in 1..Len(edges) : edges[i].id = edge_id THEN edges
                        ELSE Append(edges, [id |-> edge_id, source |-> source_name,
                                            target |-> target_name, source_fields |-> <<>>])
           j == CHOOSE i \in 1..Len(with_edge) : with_edge[i].id = edge_id
           with_field == IF InSeq(with_edge[j].source_fields, r.source_field_name)
                         THEN with_edge
                         ELSE [with_edge EXCEPT ![j].source_fields =
                                 Append(@, r.source_field_name)]
       IN  graph_loop(refs, k + 1, subject, sv, with_target, with_field)

\* grapher.graph: the elements (the nodes, then the edges, each with its
\* label in place of its source fields) and the metadata put in the template.
graph(sv, subject, ord) ==
  LET refs == identify_references(sv, get_collection_name_to_class_names_map(sv).map, ord).data
      g == graph_loop(refs, 1, subject, sv, <<>>, <<>>)
      edges == [i \in 1..Len(g.edges) |->
                  [id |-> g.edges[i].id, source |-> g.edges[i].source,
                   target |-> g.edges[i].target,
                   label |-> join_with_comma(g.edges[i].source_fields)]]
  IN  [references |-> refs,
       html_result |->
         [graph_data |-> g.nodes \o edges,
          graph_metadata |->
            [app_version |-> get_package_metadata("Version"),
             schema_version |-> schema_version(sv),
             subject_singular |-> IF subject = "class" THEN "class" ELSE "collection",
             subject_plural |-> IF subject = "class" THEN "classes" ELSE "collections"]]]

\* A run of the graph command of cli/graph.py: the import of grapher can
\* raise; the catalog is built and graph.html written.
CommandGraph ==
  /\ call.op = "init"
  /\ \E subject \in Subjects, package_init \in PackageInits,
        ord \in HashOrdersOf(schema_view,
                             get_collection_name_to_class_names_map(schema_view).map) :
       LET r == graph(schema_view, subject, ord)
       IN  IF import_get_package_metadata(package_init) # None
           THEN /\ references' = references
                /\ files' = files
                /\ call' = [op |-> "graph", subject |-> subject,
                            raised |-> import_get_package_metadata(package_init)]
           ELSE /\ references' = [built |-> TRUE, raised |-> FALSE, data |-> r.references]
                /\ files' = ("graph.html" :> r.html_result) @@ files
                /\ call' = [op |-> "graph", subject |-> subject, raised |-> None]
  /\ UNCHANGED <<db, txn, cached_collection_names_where_recently_found,
                 cached_id_presence_by_collection, schema_view, other_finder>>

\* refgraph.py: the loop of its graph command over the references, from the
\* k-th on: a node is its id, an edge its id, source and target.
RECURSIVE refgraph_loop(_, _, _, _, _)
refgraph_loop(refs, k, subject, nodes, edges) ==
  IF k > Len(refs) THEN nodes \o edges
  ELSE LET r == refs[k]
           source_name == IF subject = "collection" THEN r.source_collection_name
                          ELSE r.source_class_name
           target_name == IF subject = "collection" THEN r.target_collection_name
                          ELSE r.target_class_name
           node_ids == [i \in 1..Len(nodes) |-> nodes[i].id]
           with_source == IF ~InSeq(node_ids, source_name)
                          THEN Append(nodes, [id |-> source_name]) ELSE nodes
           with_target == IF ~InSeq(node_ids, target_name)
                          THEN Append(with_source, [id |-> target_name]) ELSE with_source
           edge_id == source_name \o "__to__" \o target_name
           with_edge == IF \E i \in 1..Len(edges) : edges[i].id = edge_id THEN edges
                        ELSE Append(edges, [id |-> edge_id, source |-> source_name,
                                            target |-> target_name])
       IN  refgraph_loop(refs, k + 1, subject, with_target, with_edge)

\* A run of the graph command of refgraph.py: its import can raise; it fills
\* the map of the collections in sorted order, builds the catalog with
\* identify_references and writes graph.html, with the elements and a
\* metadata of the two versions.
RefgraphGraph ==
  /\ call.op = "init"
  /\ \E subject \in Subjects, package_init \in PackageInits,
        ord \in RefscanOrdersOf(schema_view,
                                get_collection_name_to_class_names_map(schema_view).map) :
       LET refs == identify_references(
                     schema_view, get_collection_name_to_class_names_map(schema_view).map,
                     ord).data
       IN  IF import_get_package_metadata(package_init) # None
           THEN /\ references' = references
                /\ files' = files
                /\ call' = [op |-> "refgraph", subject |-> subject,
                            raised |-> import_get_package_metadata(package_init)]
           ELSE /\ references' = [built |-> TRUE, raised |-> FALSE, data |-> refs]
                /\ files' =
                     ("graph.html" :>
                        [graph_data |-> refgraph_loop(refs, 1, subject, <<>>, <<>>),
                         graph_metadata |->
                           [app_version |-> get_package_metadata("Version"),
                            schema_version |-> schema_version(schema_view)]]) @@ files
                /\ call' = [op |-> "refgraph", subject |-> subject, raised |-> None]
  /\ UNCHANGED <<db, txn, cached_collection_names_where_recently_found,
                 cached_id_presence_by_collection, schema_view, other_finder>>

NextCommand ==
  \/ CommandWriteReferenceReport
  \/ CommandConnect
  \/ CommandScan
  \/ CommandWriteViolationReport
  \/ CommandGraph
  \/ RefgraphGraph

SpecCommand == InitCommand /\ [][NextCommand]_vars

\* The command has contacted the database server.
DbContacted == call.op = "command" /\ call.db_contacted

\* C12: the step that first contacts the database finds the reference report
\* written; and whenever the command has failed after that (no server, no
\* database, an error raised by the scan), the reference report is there and
\* no violation report is.
C12_ReferenceReportBeforeDatabase ==
  [][/\ (DbContacted' /\ ~DbContacted) => "references.tsv" \in DOMAIN files
     /\ (DbContacted' /\ call'.pc = "failed") =>
          /\ "references.tsv" \in DOMAIN files'
          /\ "violations.tsv" \notin DOMAIN files']_vars

C12_Witness ==
  /\ call.op = "command"
  /\ call.pc = "failed"
  /\ call.raised = "ValueError"
  /\ call.result = <<>>
  /\ \E c \in DOMAIN db \ Range(call.skip) : \E k \in 1..Len(db[c]) :
       DeclaredClasses(schema_view, db[c][k]) = {}
  /\ "references.tsv" \in DOMAIN files

====
